---- MODULE Spec2Model ----
(***************************************************************************)
(* A model of the article tracking store (src/src/utils/article_tracker.py) *)
(* and of the ingestion pipeline that uses it (src/src/main.py).            *)
(*                                                                          *)
(* Text is a sequence of one-character strings.  A value a Python dict may  *)
(* hold under a key is a record [k, v]: k says what kind of value it is     *)
(* (key absent, None, a number, text) and v is its text (for a number: the  *)
(* text str() gives it).                                                    *)
(***************************************************************************)
EXTENDS Integers, Sequences, FiniteSets, TLC

(***************************************************************************)
(* Bounds of the model.                                                     *)
(***************************************************************************)
\* longest title / source text drawn for the identity function
MaxStrLen == 2
\* the clock: instants 0..MaxTime, TicksPerDay of them to a day
MaxTime == 3
TicksPerDay == 2
\* largest day count handed to clear_older_than
MaxDays == 2
\* longest list a fetch returns
MaxFetch == 3
\* largest citation count, h-index and threshold of the quality filter, and
\* the longest list handed to it
MaxMetric == 2
MaxQualityItems == 2
\* longest title scored for relevance, longest list ranked
MaxTitleLen == 3
MaxRankItems == 3
\* the configuration of the modelled runs: app.max_articles_to_process and
\* app.tracking_retention_days
MaxArticlesToProcess == 2
RetentionDays == 1

(***************************************************************************)
(* Values and text.                                                         *)
(***************************************************************************)
Absent == [k |-> "absent", v |-> <<>>]
NoneVal == [k |-> "none", v |-> <<"N", "o", "n", "e">>]
NumVal == [k |-> "num", v |-> <<"7">>]
Txt(s) == [k |-> "text", v |-> s]

EmptyText == <<>>
Space == " "

\* dict.get(key, default)
Get(field, default) == IF field.k = "absent" THEN default ELSE field

\* Python truthiness of dict.get(key): None and "" are false
Truthy(field) == \/ field.k = "num"
                 \/ field.k = "text" /\ field.v # EmptyText

RECURSIVE LStrip(_)
LStrip(s) == IF s # <<>> /\ Head(s) = Space THEN LStrip(Tail(s)) ELSE s

RECURSIVE RStrip(_)
RStrip(s) == IF s # <<>> /\ s[Len(s)] = Space
             THEN RStrip(SubSeq(s, 1, Len(s) - 1)) ELSE s

\* str.strip()
Strip(s) == RStrip(LStrip(s))

\* All texts over alphabet A of length at most n
RECURSIVE TextsUpTo(_, _)
TextsUpTo(A, n) ==
    IF n = 0 THEN {<<>>}
    ELSE LET shorter == TextsUpTo(A, n - 1)
         IN  shorter \cup {Append(s, c) : s \in shorter, c \in A}

(***************************************************************************)
(* hashlib.sha256(content.encode()).hexdigest()[:16]                        *)
(* SHA-256 itself is replaced by a small polynomial digest: what is kept is *)
(* that the digest is a function of the bytes alone and that the result is  *)
(* the first HashLen hexadecimal characters.                                *)
(***************************************************************************)
HashLen == 16
HexDigits == <<"0", "1", "2", "3", "4", "5", "6", "7",
               "8", "9", "a", "b", "c", "d", "e", "f">>

CharCode(c) == CASE c = " " -> 32
                 [] c = "." -> 46
                 [] c = "0" -> 48
                 [] c = "1" -> 49
                 [] c = "2" -> 50
                 [] c = "3" -> 51
                 [] c = "4" -> 52
                 [] c = "5" -> 53
                 [] c = "6" -> 54
                 [] c = "7" -> 55
                 [] c = "8" -> 56
                 [] c = "9" -> 57
                 [] c = ":" -> 58
                 [] c = "N" -> 78
                 [] c = "a" -> 97
                 [] c = "b" -> 98
                 [] c = "c" -> 99
                 [] c = "e" -> 101
                 [] c = "n" -> 110
                 [] c = "o" -> 111
                 [] c = "s" -> 115
                 [] c = "t" -> 116
                 [] c = "u" -> 117
                 [] c = "v" -> 118
                 [] OTHER -> 63

RECURSIVE Digest(_, _)
Digest(s, acc) == IF s = <<>> THEN acc
                  ELSE Digest(Tail(s), (acc * 31 + CharCode(Head(s))) % 65536)

HexDigest(s) ==
    LET d == Digest(s, 7)
    IN  [i \in 1..64 |-> HexDigits[(((d \div (16 ^ (i % 4))) + i) % 16) + 1]]

Sha256Hex16(s) == SubSeq(HexDigest(s), 1, HashLen)

(***************************************************************************)
(* ArticleTracker._get_article_id                                           *)
(* An article is a record of the four fields the function reads.  The       *)
(* outcome is either a returned value or a raised exception.                *)
(***************************************************************************)
Returned(val) == [raised |-> FALSE, val |-> val]
Raised == [raised |-> TRUE, val |-> Absent]

\* the f-string of the last resort: f"{title}{source}{content}" with '' defaults
HashInput(article) == Get(article.title, Txt(EmptyText)).v
                      \o Get(article.source, Txt(EmptyText)).v
                      \o Get(article.content, Txt(EmptyText)).v

\* the url rule dropped: identity from title and source even when a url is there
NoUrlRule_get_article_id(article) ==
    LET t == Get(article.title, Txt(EmptyText))
        s == Get(article.source, Txt(EmptyText))
    IN  IF t.k # "text" \/ s.k # "text" THEN Raised
        ELSE IF Strip(t.v) # EmptyText /\ Strip(s.v) # EmptyText
             THEN Returned(Txt(Strip(s.v) \o <<":">> \o Strip(t.v)))
        ELSE IF Strip(t.v) # EmptyText THEN Returned(Txt(Strip(t.v)))
        ELSE Returned(Txt(Sha256Hex16(HashInput(article))))

get_article_id(article) ==
    IF Truthy(article.url) THEN Returned(article.url)
    ELSE LET t == Get(article.title, Txt(EmptyText))
             s == Get(article.source, Txt(EmptyText))
         IN  \* title.strip() / source.strip() raise AttributeError on a
             \* value that is not text
             IF t.k # "text" \/ s.k # "text" THEN Raised
             ELSE IF Strip(t.v) # EmptyText /\ Strip(s.v) # EmptyText
                  THEN Returned(Txt(Strip(s.v) \o <<":">> \o Strip(t.v)))
             ELSE IF Strip(t.v) # EmptyText THEN Returned(Txt(Strip(t.v)))
             ELSE Returned(Txt(Sha256Hex16(HashInput(article))))

(***************************************************************************)
(* Time.  An instant is a number of clock ticks.  datetime.isoformat()      *)
(* gives a fixed-width, zero-padded whole part and appends the fraction     *)
(* only when it is not zero; the store keeps and compares that text.        *)
(***************************************************************************)
Digit(n) == HexDigits[n + 1]

isoformat(t) ==
    LET whole == t \div TicksPerDay
        frac == t % TicksPerDay
    IN  <<Digit(whole \div 10), Digit(whole % 10)>>
        \o (IF frac = 0 THEN <<>> ELSE <<".", Digit(frac)>>)

\* SQLite's comparison of TEXT under the BINARY collation (memcmp, then length)
RECURSIVE TextLess(_, _)
TextLess(a, b) ==
    IF b = <<>> THEN FALSE
    ELSE IF a = <<>> THEN TRUE
    ELSE IF Head(a) = Head(b) THEN TextLess(Tail(a), Tail(b))
    ELSE CharCode(Head(a)) < CharCode(Head(b))

(***************************************************************************)
(* The table processed_articles: a set of rows.                             *)
(***************************************************************************)
Unknown == <<"U", "n", "k", "n", "o", "w", "n">>

\* a lookup in the url column instead of the key
ExistsByUrl(tbl, id) == \E r \in tbl : r.url = Txt(id)

\* SELECT 1 FROM processed_articles WHERE article_id = ?
Exists(tbl, id) == \E r \in tbl : r.article_id = id

\* a plain insert that keeps the row already stored under the key
InsertKeepOld(tbl, row) == tbl \cup {row}

\* INSERT OR REPLACE INTO processed_articles
InsertOrReplace(tbl, row) ==
    {r \in tbl : r.article_id # row.article_id} \cup {row}

\* the row mark_processed writes
MarkRow(article, id, summary, t) ==
    [article_id |-> id,
     title |-> Get(article.title, Txt(Unknown)).v,
     source |-> Get(article.source, Txt(Unknown)).v,
     url |-> Get(article.url, Txt(EmptyText)),
     summary |-> summary,
     processed_date |-> isoformat(t)]

\* title and source are NOT NULL columns
ViolatesNotNull(article) ==
    \/ Get(article.title, Txt(Unknown)).k = "none"
    \/ Get(article.source, Txt(Unknown)).k = "none"

\* the sweep also deleting a record exactly at the cutoff
DeleteUpTo(tbl, cutoff) ==
    {r \in tbl : TextLess(cutoff, r.processed_date)}

\* what DELETE FROM processed_articles WHERE processed_date < ? leaves
DeleteOlder(tbl, cutoff) ==
    {r \in tbl : ~TextLess(r.processed_date, cutoff)}

\* a write that stays in the table although the call fails after it
WrittenBeforeFailure(tbl, row, ok) == InsertOrReplace(tbl, row)

\* the table after the INSERT OR REPLACE and conn.commit() of mark_processed:
\* a statement or commit that fails leaves nothing behind, the connection
\* is closed without a commit
Written(tbl, row, ok) == IF ok THEN InsertOrReplace(tbl, row) ELSE tbl

(***************************************************************************)
(* ArticleTracker.get_processed_articles                                    *)
(* limit and source are values: None, a number n (bool counts as int),      *)
(* text.  The order of rows with equal processed_date is left to SQLite, so *)
(* the result is any of the orderings the sort admits.                      *)
(***************************************************************************)
NoLimit == [k |-> "none", n |-> 0]
IntVal(n) == [k |-> "int", n |-> n]
BoolVal(n) == [k |-> "bool", n |-> n]
FloatVal(n) == [k |-> "float", n |-> n]
StrVal == [k |-> "str", n |-> 0]

\* isinstance(x, int): bool is a subclass of int
IsInt(x) == x.k \in {"int", "bool"}

\* the guard without its test of the sign
AnyIntDays(days) == IsInt(days)

\* clear_older_than goes on unless "not isinstance(days, int) or days <= 0"
ValidDays(days) == IsInt(days) /\ days.n > 0

\* every ordering of the rows S by processed_date, latest first
RECURSIVE OrderByDateDesc(_)
OrderByDateDesc(S) ==
    IF S = {} THEN {<<>>}
    ELSE UNION {{<<r>> \o rest : rest \in OrderByDateDesc(S \ {r})} :
                r \in {x \in S : \A y \in S :
                          ~TextLess(x.processed_date, y.processed_date)}}

\* "if source:" adds WHERE source = ?
WhereSource(tbl, source) ==
    IF Truthy(source) THEN {r \in tbl : r.source = source.v} ELSE tbl

\* "if limit and isinstance(limit, int):" adds LIMIT ?; a negative LIMIT is
\* no limit in SQLite
Limited(rows, limit) ==
    IF limit.k # "none" /\ limit.n # 0 /\ IsInt(limit) /\ limit.n >= 0
       /\ limit.n < Len(rows)
    THEN SubSeq(rows, 1, limit.n) ELSE rows

get_processed_articles(tbl, limit, source) ==
    {Limited(rows, limit) : rows \in OrderByDateDesc(WhereSource(tbl, source))}

(***************************************************************************)
(* ArticleTracker.get_stats: four SELECT statements on one connection.      *)
(***************************************************************************)
CountAll(tbl) == Cardinality(tbl)

CountBySource(tbl) ==
    [s \in {r.source : r \in tbl} |-> Cardinality({r \in tbl : r.source = s})]

NullDate == [k |-> "none", v |-> <<>>]

\* MAX(processed_date), NULL on an empty table
MaxDate(tbl) ==
    IF tbl = {} THEN NullDate
    ELSE Txt(CHOOSE d \in {r.processed_date : r \in tbl} :
                \A r \in tbl : ~TextLess(d, r.processed_date))

\* the latest date reported as the oldest
OldestIsNewest(tbl) == MaxDate(tbl)

\* MIN(processed_date), NULL on an empty table
MinDate(tbl) ==
    IF tbl = {} THEN NullDate
    ELSE Txt(CHOOSE d \in {r.processed_date : r \in tbl} :
                \A r \in tbl : ~TextLess(r.processed_date, d))

get_stats(tbl) ==
    [total_articles |-> CountAll(tbl),
     by_source |-> CountBySource(tbl),
     oldest_article |-> MinDate(tbl),
     newest_article |-> MaxDate(tbl)]

(***************************************************************************)
(* ArticleTracker._migrate_from_json                                        *)
(* The legacy file is absent, present or renamed to its backup name; its    *)
(* content is a sequence of entries (the items of the JSON object, in file  *)
(* order).                                                                  *)
(***************************************************************************)
LegacyRow(e, t) ==
    [article_id |-> e.article_id,
     title |-> Get(e.title, Txt(Unknown)).v,
     source |-> Get(e.source, Txt(Unknown)).v,
     url |-> Get(e.url, Txt(EmptyText)),
     summary |-> Get(e.summary, NoneVal),
     processed_date |-> Get(e.processed_date, Txt(isoformat(t))).v]

LegacyViolatesNotNull(e) ==
    \/ Get(e.title, Txt(Unknown)).k = "none"
    \/ Get(e.source, Txt(Unknown)).k = "none"
    \/ Get(e.processed_date, Txt(EmptyText)).k = "none"

\* the loop writing every legacy record over the row already stored
RECURSIVE MigrateRowsReplacing(_, _, _, _)
MigrateRowsReplacing(entries, tbl, migrated, t) ==
    IF entries = <<>>
    THEN [raised |-> FALSE, table |-> tbl, migrated |-> migrated]
    ELSE LET e == Head(entries)
         IN  IF LegacyViolatesNotNull(e)
             THEN [raised |-> TRUE, table |-> tbl, migrated |-> migrated]
             ELSE MigrateRowsReplacing(Tail(entries),
                                       InsertOrReplace(tbl, LegacyRow(e, t)),
                                       migrated + 1, t)

\* the loop over old_data.items(): stops at the first INSERT that raises
RECURSIVE MigrateRows(_, _, _, _)
MigrateRows(entries, tbl, migrated, t) ==
    IF entries = <<>>
    THEN [raised |-> FALSE, table |-> tbl, migrated |-> migrated]
    ELSE LET e == Head(entries)
         IN  IF Exists(tbl, e.article_id)
             THEN MigrateRows(Tail(entries), tbl, migrated, t)
             ELSE IF LegacyViolatesNotNull(e)
             THEN [raised |-> TRUE, table |-> tbl, migrated |-> migrated]
             ELSE MigrateRows(Tail(entries), tbl \cup {LegacyRow(e, t)},
                              migrated + 1, t)

\* where the environment makes the pass fail: nowhere, at the reading of
\* the file or the opening of the connection, at conn.commit(), at
\* json_path.rename()
NoFailure == "none"
FailurePoints == {NoFailure, "connect", "commit", "rename"}

\* the pass that renames the file before it copies the records
RenameFirst_migrate_from_json(tbl, leg, t, fail) ==
    IF leg.state # "present" \/ leg.data = <<>>
    THEN [table |-> tbl, legacy |-> leg, raised |-> FALSE, copied |-> {}]
    ELSE LET m == MigrateRows(leg.data, tbl, 0, t)
             failed == fail # NoFailure \/ m.raised
         IN  [table |-> IF failed THEN tbl ELSE m.table,
              legacy |-> [leg EXCEPT !.state = "renamed"],
              raised |-> failed,
              copied |-> m.table \ tbl]

\* the result: the table and the file left behind, whether an exception was
\* caught, and the rows the loop had inserted when the pass ended.  Rows
\* inserted before an exception are never committed: closing the connection
\* rolls them back.  The rename is attempted only when migrated > 0.
migrate_from_json(tbl, leg, t, fail) ==
    IF leg.state # "present" \/ leg.data = <<>>
    THEN [table |-> tbl, legacy |-> leg, raised |-> FALSE, copied |-> {}]
    ELSE LET m == MigrateRows(leg.data, tbl, 0, t)
         IN  IF fail = "connect"
             THEN [table |-> tbl, legacy |-> leg, raised |-> TRUE,
                   copied |-> {}]
             ELSE IF m.raised \/ fail = "commit"
             THEN [table |-> tbl, legacy |-> leg, raised |-> TRUE,
                   copied |-> m.table \ tbl]
             ELSE IF m.migrated > 0 /\ fail = "rename"
             THEN [table |-> m.table, legacy |-> leg, raised |-> TRUE,
                   copied |-> m.table \ tbl]
             ELSE [table |-> m.table,
                   legacy |-> IF m.migrated > 0
                              THEN [leg EXCEPT !.state = "renamed"]
                              ELSE leg,
                   raised |-> FALSE,
                   copied |-> m.table \ tbl]

(***************************************************************************)
(* State.                                                                   *)
(***************************************************************************)
VARIABLES
    table,        \* the rows of processed_articles in articles.db
    legacy,       \* processed_articles.json: [state, data]
    opened,       \* an ArticleTracker has been constructed on the directory
    now,          \* the clock
    last,         \* the call made by the latest step, with what it returned
    lastMark,     \* history: <<identity, summary>> of the latest successful
                  \* mark of each identity whose record was not swept since
    everMarked,   \* history: identities marked successfully so far
    everMigrated, \* history: identities inserted by the migration so far
    idArg,        \* the article handed to _get_article_id
    idOut,        \* the outcomes of the calls of _get_article_id on idArg
    pc,           \* process_articles: the stage to run next, "idle" between runs
    reader,       \* process_articles: index of the reader being processed
    batch,        \* process_articles: the list the latest stage produced
    item,         \* process_articles: index in articles_to_process
    pending,      \* process_articles: the summary waiting to be marked
    new_articles, \* process_articles: the articles to return
    summarized,   \* history: identities summarize_article returned a
                  \* summary for, whose record no sweep has removed since
    fetched,      \* history: the list the current reader's fetch returned
    passed,       \* history: the list the quality filter let through
    conns,        \* the connections to articles.db that are open
    session,      \* the store operation in progress, step by step
    wrapper       \* the locals of a call of a function wrapped by retry

storeVars == <<table, legacy, opened, now>>
histVars == <<lastMark, everMarked, everMigrated>>
idVars == <<idArg, idOut>>
runVars == <<pc, reader, batch, item, pending, new_articles, summarized,
             fetched, passed>>
auxVars == <<conns, session, wrapper>>
vars == <<table, legacy, opened, now, last, lastMark, everMarked,
          everMigrated, idArg, idOut, pc, reader, batch, item, pending,
          new_articles, summarized, fetched, passed, conns, session, wrapper>>

\* pre: whether a record of the call's identity was stored when it was made
Call(op, arg, aux, fail, pre, ret) ==
    [op |-> op, arg |-> arg, aux |-> aux, fail |-> fail, pre |-> pre,
     ret |-> ret]

NoCall == Call("none", Absent, Absent, FALSE, FALSE, Returned(FALSE))

(***************************************************************************)
(* The articles and legacy files the store is exercised with.               *)
(***************************************************************************)
Article(url, title, source) ==
    [url |-> url, title |-> title, source |-> source, content |-> Txt(<<"c">>)]

\* two articles of different sources under one url, one identified by
\* source and title, one whose title is None, one without url and title
Article1 == Article(Txt(<<"u">>), Txt(<<"a">>), Txt(<<"s">>))
Article2 == Article(Txt(<<"u">>), Txt(<<"b">>), Txt(<<"t">>))
Article3 == Article(Absent, Txt(<<" ", "a">>), Txt(<<"s">>))
ArticleNoTitle == Article(Txt(<<"u">>), NoneVal, Txt(<<"s">>))
ArticleNoId == Article(Absent, NoneVal, Txt(<<"s">>))

Articles == {Article1, Article2, Article3, ArticleNoTitle, ArticleNoId}

Summaries == {Txt(<<"1">>), Txt(<<"2">>)}

LegacyEntry(id, title, source, date) ==
    [article_id |-> id, title |-> title, source |-> source,
     url |-> Txt(id), summary |-> Absent, processed_date |-> date]

LegacyU == LegacyEntry(<<"u">>, Txt(<<"a">>), Txt(<<"s">>), Absent)
LegacyV == LegacyEntry(<<"v">>, Txt(<<"b">>), Txt(<<"t">>), Txt(isoformat(0)))
LegacyBad == LegacyEntry(<<"w">>, NoneVal, Txt(<<"s">>), Txt(isoformat(0)))

NoLegacy == [state |-> "absent", data |-> <<>>]
LegacyFile(d) == [state |-> "present", data |-> d]
LegacyFiles == {NoLegacy, LegacyFile(<<LegacyU>>)}

DayCounts ==
    {IntVal(n) : n \in -1..MaxDays}
    \cup {BoolVal(1), FloatVal(1), StrVal, NoLimit}

\* the failures of the connection worth drawing for a day count: the call
\* returns before it opens a connection when the count is not valid
Failures(days) == IF ValidDays(days) THEN BOOLEAN ELSE {FALSE}

Limits == {NoLimit, IntVal(0), IntVal(1), IntVal(2), StrVal}

\* three articles with urls of their own, from two sources
Query1 == Article(Txt(<<"u">>), Txt(<<"a">>), Txt(<<"s">>))
Query2 == Article(Txt(<<"v">>), Txt(<<"b">>), Txt(<<"s">>))
Query3 == Article(Txt(<<"w">>), Txt(<<"c">>), Txt(<<"t">>))
QueryArticles == {Query1, Query2, Query3}

SourceArgs == {NoneVal, Txt(EmptyText), Txt(<<"s">>), Txt(<<"t">>)}

(***************************************************************************)
(* The operations of the store.                                             *)
(***************************************************************************)
\* ArticleTracker.__init__: _init_db(), then _migrate_from_json()
Construct(fail) ==
    LET m == migrate_from_json(table, legacy, now, fail)
    IN  /\ opened' = TRUE
        /\ table' = m.table
        /\ legacy' = m.legacy
        /\ everMigrated' = everMigrated \cup
                           {r.article_id : r \in m.table \ table}
        /\ last' = Call("init", Absent, m.copied, fail # NoFailure,
                        \E i \in 1..Len(legacy.data) :
                            Exists(table, legacy.data[i].article_id),
                        Returned(m.raised))
        /\ UNCHANGED <<now, lastMark, everMarked, idVars, auxVars, runVars>>

is_processed(article) ==
    LET id == get_article_id(article)
    IN  /\ opened
        /\ last' = Call("is_processed", article, Absent, FALSE, FALSE,
                        IF id.raised THEN Raised
                        ELSE Returned(Exists(table, id.val.v)))
        /\ UNCHANGED <<storeVars, histVars, idVars, auxVars, runVars>>

mark_processed(article, summary, fail) ==
    LET id == get_article_id(article)
        ok == ~id.raised /\ ~ViolatesNotNull(article) /\ ~fail
    IN  /\ opened
        /\ table' = IF id.raised THEN table
                    ELSE Written(table,
                                 MarkRow(article, id.val.v, summary, now), ok)
        /\ last' = Call("mark_processed", article, summary, fail,
                        ~id.raised /\ Exists(table, id.val.v), Returned(ok))
        /\ lastMark' = IF ok
                       THEN {p \in lastMark : p[1] # id.val.v}
                            \cup {<<id.val.v, summary>>}
                       ELSE lastMark
        /\ everMarked' = IF ok THEN everMarked \cup {id.val.v} ELSE everMarked
        /\ UNCHANGED <<legacy, opened, now, everMigrated, idVars, auxVars, runVars>>

clear_older_than(days, fail) ==
    LET cutoff == now - days.n * TicksPerDay
        \* a cutoff before the first instant precedes every record
        acts == ValidDays(days) /\ cutoff >= 0 /\ ~fail
        left == IF acts THEN DeleteOlder(table, isoformat(cutoff)) ELSE table
    IN  /\ opened
        /\ table' = left
        /\ last' = Call("clear_older_than", days, Absent, fail, FALSE,
                        Returned(Cardinality(table) - Cardinality(left)))
        /\ lastMark' = {p \in lastMark : Exists(left, p[1])}
        /\ UNCHANGED <<legacy, opened, now, everMarked, everMigrated, idVars, auxVars,
                       runVars>>

GetProcessedArticles(limit, source) ==
    /\ opened
    /\ \E rows \in get_processed_articles(table, limit, source) :
          last' = Call("get_processed_articles", limit, source, FALSE,
                       FALSE, Returned(rows))
    /\ UNCHANGED <<storeVars, histVars, idVars, auxVars, runVars>>

GetStats ==
    /\ opened
    /\ last' = Call("get_stats", Absent, Absent, FALSE, FALSE,
                    Returned(get_stats(table)))
    /\ UNCHANGED <<storeVars, histVars, idVars, auxVars, runVars>>

Tick ==
    /\ now < MaxTime
    /\ now' = now + 1
    /\ last' = Call("tick", Absent, Absent, FALSE, FALSE, Returned(FALSE))
    /\ UNCHANGED <<table, legacy, opened, histVars, idVars, auxVars, runVars>>

NoArticle == Article(Absent, Absent, Absent)

\* no store operation in progress; the statistics get_stats has read so far
NoStats == [total_articles |-> 0, by_source |-> <<>>,
            oldest_article |-> NullDate, newest_article |-> NullDate]
NoSession == [op |-> "none", pc |-> "idle", arg |-> Absent, raised |-> FALSE,
              result |-> NoStats]

\* no call of a wrapped function in progress
NoWrapper == [pc |-> "idle", max_attempts |-> 0, initial_delay |-> 0,
              backoff_factor |-> 0, attempt |-> 0, delay |-> 0,
              last_exception |-> "None", calls |-> <<>>, sleeps |-> <<>>,
              result |-> "None"]

AuxIdle ==
    /\ conns = 0
    /\ session = NoSession
    /\ wrapper = NoWrapper

RunIdle ==
    /\ pc = "idle"
    /\ reader = 0
    /\ batch = <<>>
    /\ item = 0
    /\ pending = Absent
    /\ new_articles = <<>>
    /\ summarized = {}
    /\ fetched = <<>>
    /\ passed = <<>>


Init ==
    /\ table = {}
    /\ legacy \in LegacyFiles
    /\ opened = FALSE
    /\ now = 0
    /\ last = NoCall
    /\ lastMark = {}
    /\ everMarked = {}
    /\ everMigrated = {}
    /\ idArg = NoArticle
    /\ idOut = <<>>
    /\ RunIdle
    /\ AuxIdle

Next ==
    \/ \E fail \in {NoFailure, "commit"} : Construct(fail)
    \/ \E a \in Articles : is_processed(a)
    \/ \E a \in Articles, s \in Summaries, fail \in BOOLEAN :
          mark_processed(a, s, fail)
    \/ \E d \in DayCounts : \E fail \in Failures(d) : clear_older_than(d, fail)
    \/ GetStats
    \/ Tick

Spec == Init /\ [][Next]_vars

(***************************************************************************)
(* The listing query, on a store of three records.                          *)
(***************************************************************************)
InitQuery == Init /\ legacy = NoLegacy

NextQuery ==
    \/ Construct(NoFailure)
    \/ \E a \in QueryArticles : mark_processed(a, Txt(<<"1">>), FALSE)
    \/ clear_older_than(IntVal(1), FALSE)
    \/ \E l \in Limits, src \in SourceArgs : GetProcessedArticles(l, src)
    \/ Tick

SpecQuery == InitQuery /\ [][NextQuery]_vars

(***************************************************************************)
(* Identity resolution on its own: an article drawn from every combination  *)
(* of absent, None, non-text, empty, blank and usable fields, resolved      *)
(* twice.                                                                   *)
(***************************************************************************)
IdUrls == {Absent, NoneVal, Txt(EmptyText), Txt(<<" ">>), Txt(<<"u">>)}
IdTitles == {Absent, NoneVal, NumVal}
            \cup {Txt(t) : t \in TextsUpTo({" ", "a"}, MaxStrLen)}
IdSources == {Absent, NoneVal}
             \cup {Txt(t) : t \in TextsUpTo({" ", "s"}, MaxStrLen)}
IdContents == {Absent, NoneVal, Txt(EmptyText), Txt(<<"c">>)}

InitId ==
    /\ table = {}
    /\ legacy = NoLegacy
    /\ opened = FALSE
    /\ now = 0
    /\ last = NoCall
    /\ lastMark = {}
    /\ everMarked = {}
    /\ everMigrated = {}
    /\ idArg \in [url : IdUrls, title : IdTitles, source : IdSources,
                  content : IdContents]
    /\ idOut = <<>>
    /\ RunIdle
    /\ AuxIdle

ResolveId ==
    /\ Len(idOut) < 2
    /\ idOut' = Append(idOut, get_article_id(idArg))
    /\ UNCHANGED <<storeVars, last, histVars, idArg, runVars, auxVars>>

NextId == ResolveId

SpecId == InitId /\ [][NextId]_vars

(***************************************************************************)
(* Properties of identity resolution.                                       *)
(***************************************************************************)
IsText(field) == field.k \in {"absent", "text"}
TextOf(field) == Get(field, Txt(EmptyText)).v
Trimmed(field) == Strip(TextOf(field))

\* the identity the four rules give, stated rule by rule
RuleIdentity(a) ==
    IF Truthy(a.url) THEN a.url
    ELSE IF Trimmed(a.title) # EmptyText /\ Trimmed(a.source) # EmptyText
    THEN Txt(Trimmed(a.source) \o <<":">> \o Trimmed(a.title))
    ELSE IF Trimmed(a.title) # EmptyText THEN Txt(Trimmed(a.title))
    ELSE Txt(Sha256Hex16(TextOf(a.title) \o TextOf(a.source)
                         \o Get(a.content, Txt(EmptyText)).v))

\* C7: for an article whose title and source are text or missing, every call
\* of _get_article_id returns the identity of the first rule that matches:
\* a non-empty url verbatim; else trimmed source, ":" and trimmed title when
\* both are non-empty; else the trimmed title when it is non-empty; else the
\* HashLen-character digest of title, source and content.  Two calls on the
\* same article return the same identity.
C7_IdentityRules ==
    IsText(idArg.title) /\ IsText(idArg.source) =>
        \A i \in 1..Len(idOut) :
            /\ idOut[i] = Returned(RuleIdentity(idArg))
            /\ idOut[i] = idOut[1]
            /\ ~Truthy(idArg.url) /\ Trimmed(idArg.title) = EmptyText
                  => Len(idOut[i].val.v) = HashLen

\* C7 witness: resolved twice, no url, a title that needs trimming and a
\* source: the second rule has given source ":" title
C7_Witness ==
    /\ Len(idOut) = 2
    /\ ~Truthy(idArg.url)
    /\ idArg.title = Txt(<<" ", "a">>)
    /\ idArg.source = Txt(<<"s">>)
    /\ idOut[2] = Returned(Txt(<<"s", ":", "a">>))

\* C8: whatever the fields hold, _get_article_id returns a non-empty text
\* and never raises.
C8_AlwaysAnIdentity ==
    \A i \in 1..Len(idOut) :
        /\ ~idOut[i].raised
        /\ idOut[i].val.k = "text"
        /\ idOut[i].val.v # EmptyText

(***************************************************************************)
(* Properties of the store.  They speak of records and instants, not of     *)
(* the text the table holds: a record's instant is the one whose            *)
(* isoformat() is its processed_date.                                       *)
(***************************************************************************)
HasRecord(tbl, id) == \E r \in tbl : r.article_id = id
RecordsOf(tbl, id) == {r \in tbl : r.article_id = id}
InstantOf(r) == CHOOSE t \in 0..MaxTime : isoformat(t) = r.processed_date
IdentityOf(article) == get_article_id(article).val.v
Resolves(article) == ~get_article_id(article).raised

\* the instant "now - days" of a sweep
Cutoff(days) == now - days.n * TicksPerDay

\* is_processed answers whether a record of the identity is stored, and
\* changes nothing
AnswersMembership ==
    last'.op = "is_processed" =>
        /\ UNCHANGED <<table, legacy>>
        /\ ~last'.ret.raised =>
              last'.ret.val = HasRecord(table, IdentityOf(last'.arg))

\* a successful mark leaves a record of the identity
MarkedIsStored ==
    last'.op = "mark_processed" /\ last'.ret.val =>
        HasRecord(table', IdentityOf(last'.arg))

\* only a sweep whose cutoff is later than the record's instant removes it
OnlySweepDeletes ==
    \A r \in table :
        ~HasRecord(table', r.article_id) =>
            /\ last'.op = "clear_older_than"
            /\ InstantOf(r) < Cutoff(last'.arg)

\* C2 as claimed: is_processed(x) is false before any mark_processed on x's
\* identity, true right after a successful one, and stays true until a sweep
\* with a later cutoff removes the record; nothing else deletes a record and
\* is_processed changes nothing.
C2_FalseBeforeAnyMark ==
    [][/\ last'.op = "is_processed" /\ ~last'.ret.raised
          /\ IdentityOf(last'.arg) \notin everMarked'
             => last'.ret.val = FALSE
       /\ AnswersMembership
       /\ MarkedIsStored
       /\ OnlySweepDeletes]_vars

\* C2 amended: is_processed(x) is false before any mark_processed on x's
\* identity and any migration of a legacy record of that identity; the rest
\* as claimed.
C2_Lifecycle ==
    [][/\ last'.op = "is_processed" /\ ~last'.ret.raised
          /\ IdentityOf(last'.arg) \notin (everMarked' \cup everMigrated')
             => last'.ret.val = FALSE
       /\ AnswersMembership
       /\ MarkedIsStored
       /\ OnlySweepDeletes]_vars

\* C2 witness: is_processed has answered true for an identity marked
\* earlier, after the clock moved on
C2_Witness ==
    /\ last.op = "is_processed"
    /\ ~last.ret.raised
    /\ last.ret.val = TRUE
    /\ IdentityOf(last.arg) \in everMarked
    /\ \E r \in table : r.article_id = IdentityOf(last.arg)
                        /\ InstantOf(r) < now

\* C3: every identity marked successfully (and not swept since) has exactly
\* one record, and the record carries the summary of the latest mark.
C3_OneRecordLastWriteWins ==
    \A p \in lastMark :
        /\ Cardinality(RecordsOf(table, p[1])) = 1
        /\ \A r \in RecordsOf(table, p[1]) : r.summary = p[2]

\* C3 witness: an identity that had a record has been marked again with
\* another summary
C3_Witness ==
    /\ last.op = "mark_processed"
    /\ last.ret.val = TRUE
    /\ last.pre = TRUE
    /\ last.aux = Txt(<<"2">>)
    /\ <<IdentityOf(last.arg), Txt(<<"2">>)>> \in lastMark
    /\ Cardinality(table) = 2

\* C4: a sweep with an integer days > 0 whose delete commits removes exactly
\* the records whose instant is strictly earlier than now - days, leaves the
\* others as they were and returns the number removed.
C4_SweepExact ==
    [][/\ last'.op = "clear_older_than"
       /\ last'.arg.k = "int" /\ last'.arg.n > 0
       /\ ~last'.fail
       => /\ table' = {r \in table : ~(InstantOf(r) < Cutoff(last'.arg))}
          /\ ~last'.ret.raised
          /\ last'.ret.val = Cardinality(table \ table')]_vars

\* C4 witness: a sweep has removed one record and kept one whose instant is
\* exactly the cutoff
C4_Witness ==
    /\ last.op = "clear_older_than"
    /\ last.arg.k = "int" /\ last.arg.n > 0
    /\ last.ret.val = 1
    /\ \E r \in table : InstantOf(r) = Cutoff(last.arg)

\* C5: a sweep called with days <= 0 or with a day count that is no number
\* deletes nothing, returns 0 and does not raise.
C5_BadDaysNoOp ==
    [][/\ last'.op = "clear_older_than"
       /\ \/ last'.arg.k = "int" /\ last'.arg.n <= 0
          \/ last'.arg.k \in {"str", "none"}
       => /\ table' = table
          /\ ~last'.ret.raised
          /\ last'.ret.val = 0]_vars

\* C5 witness: clear_older_than(0) has returned on a store that holds a
\* record older than now
C5_Witness ==
    /\ last.op = "clear_older_than"
    /\ last.arg = IntVal(0)
    /\ \E r \in table : InstantOf(r) < now

\* C6: mark_processed returns true exactly when its upsert is committed; when
\* the write fails it returns false, raises nothing and leaves the records
\* as they were.
C6_MarkReportsWrite ==
    [][last'.op = "mark_processed"
       => /\ ~last'.ret.raised
          /\ last'.fail => last'.ret.val = FALSE
          /\ last'.ret.val = TRUE =>
                \E r \in table' : /\ r.article_id = IdentityOf(last'.arg)
                                  /\ r.summary = last'.aux
                                  /\ InstantOf(r) = now
          /\ last'.ret.val = FALSE => table' = table]_vars

\* C6 witness: a mark whose write failed has returned false while a record
\* of the same identity was stored
C6_Witness ==
    /\ last.op = "mark_processed"
    /\ last.fail
    /\ last.ret.val = FALSE
    /\ last.pre = TRUE
    /\ Resolves(last.arg)
    /\ HasRecord(table, IdentityOf(last.arg))

SumOver(f) ==
    LET RECURSIVE Sum(_)
        Sum(S) == IF S = {} THEN 0
                  ELSE LET x == CHOOSE y \in S : TRUE
                       IN  f[x] + Sum(S \ {x})
    IN  Sum(DOMAIN f)

\* C10: get_stats returns the number of records, for each source present its
\* number of records (the counts adding up to the total), and the earliest
\* and latest processed_date stored.
C10_StatsMatchStore ==
    last.op = "get_stats" =>
        LET st == last.ret.val
        IN  /\ st.total_articles = Cardinality(table)
            /\ DOMAIN st.by_source = {r.source : r \in table}
            /\ \A src \in DOMAIN st.by_source :
                  st.by_source[src] =
                      Cardinality({r \in table : r.source = src})
            /\ SumOver(st.by_source) = st.total_articles
            /\ table # {} =>
                  /\ st.oldest_article.k = "text"
                  /\ st.newest_article.k = "text"
                  /\ \E r \in table :
                        /\ r.processed_date = st.oldest_article.v
                        /\ \A q \in table : InstantOf(r) <= InstantOf(q)
                  /\ \E r \in table :
                        /\ r.processed_date = st.newest_article.v
                        /\ \A q \in table : InstantOf(q) <= InstantOf(r)

\* C10 witness: get_stats has returned on a store of two records of
\* different sources and instants
C10_Witness ==
    /\ last.op = "get_stats"
    /\ last.ret.val.total_articles = 2
    /\ Cardinality(DOMAIN last.ret.val.by_source) = 2
    /\ last.ret.val.oldest_article # last.ret.val.newest_article

\* C9: get_processed_articles returns records latest first; with a source
\* given, exactly the records of that source; with an integer limit n given,
\* at most n records, the n most recent matching ones.
C9_ListingOrderedFilteredCapped ==
    last.op = "get_processed_articles" =>
        LET rows == last.ret.val
            limit == last.arg
            source == last.aux
            returned == {rows[i] : i \in 1..Len(rows)}
            matching == IF source.k = "text"
                        THEN {r \in table : r.source = source.v}
                        ELSE table
        IN  /\ \A i, j \in 1..Len(rows) :
                  i < j => /\ InstantOf(rows[i]) >= InstantOf(rows[j])
                           /\ rows[i] # rows[j]
            /\ returned \subseteq matching
            /\ limit.k # "int" => returned = matching
            /\ limit.k = "int" =>
                  /\ Len(rows) <= limit.n
                  /\ Len(rows) = limit.n \/ returned = matching
                  /\ \A r \in matching \ returned, q \in returned :
                        InstantOf(q) >= InstantOf(r)

\* the same, for a non-empty source and a limit of at least 1
C9_ListingForUsableArguments ==
    last.op = "get_processed_articles"
    /\ last.aux # Txt(EmptyText)
    /\ (last.arg.k = "int" => last.arg.n >= 1)
    => C9_ListingOrderedFilteredCapped

(***************************************************************************)
(* process_articles (src/src/main.py).  A run is a sequence of steps: the   *)
(* set-up, then for each reader in turn fetch, topic filter, dedup filter,  *)
(* quality filter, cap, and for each article left summarize and mark.       *)
(***************************************************************************)
\* str.lower()
Lower(t) == [i \in 1..Len(t) |-> IF t[i] = "A" THEN "a" ELSE t[i]]

\* "sub in t"
Contains(sub, t) ==
    \E i \in 0..(Len(t) - Len(sub)) : SubSeq(t, i + 1, i + Len(sub)) = sub

MatchesTopic(article, topics) ==
    \E n \in 1..Len(topics) :
        \/ Contains(Lower(topics[n]), Lower(Get(article.title, Txt(EmptyText)).v))
        \/ Contains(Lower(topics[n]), Lower(Get(article.content, Txt(EmptyText)).v))

\* BaseReader.filter_by_topics: .lower() raises on a title or content that
\* is not text
filter_by_topics(articles, topics) ==
    IF topics = <<>> THEN Returned(articles)
    ELSE IF \E i \in 1..Len(articles) :
               \/ Get(articles[i].title, Txt(EmptyText)).k # "text"
               \/ Get(articles[i].content, Txt(EmptyText)).k # "text"
    THEN [raised |-> TRUE, val |-> <<>>]
    ELSE Returned(SelectSeq(articles, LAMBDA a : MatchesTopic(a, topics)))

\* the loop "if not tracker.is_processed(article)" over the filtered list
Unprocessed(articles, tbl) ==
    IF \E i \in 1..Len(articles) : get_article_id(articles[i]).raised
    THEN [raised |-> TRUE, val |-> <<>>]
    ELSE Returned(SelectSeq(articles,
             LAMBDA a : ~Exists(tbl, get_article_id(a).val.v)))

\* ArticleFilter.passes on the metrics score_article resolved; h_index is
\* None when no h-index was looked up
passes(min_citations, min_h_index, citations, h_index) ==
    IF min_citations # 0 /\ citations < min_citations THEN FALSE
    ELSE IF min_h_index # 0 /\ h_index.k # "none" /\ h_index.n < min_h_index
    THEN FALSE
    ELSE TRUE

\* what the metrics service answers for one article: the citation count
\* get_article_citation_count returns (0 when its request fails), and for
\* the journal either an h-index or a request that fails
LookupFailed == [failed |-> TRUE, h |-> 0]
VenueHIndex(h) == [failed |-> FALSE, h |-> h]
Lookup(citations, venue) == [citations |-> citations, venue |-> venue]

\* metrics.get_journal_h_index: 0 for no journal and for a request that
\* fails
get_journal_h_index(journal, venue) ==
    IF ~Truthy(journal) THEN 0
    ELSE IF venue.failed THEN 0
    ELSE venue.h

\* ArticleFilter.score_article: the h-index is looked up only when
\* min_h_index is set and the article has a journal, else it is None
score_article(article, min_h_index, lookup) ==
    [citations |-> lookup.citations,
     h_index |-> IF min_h_index # 0 /\ Truthy(article.journal)
                 THEN IntVal(get_journal_h_index(article.journal,
                                                 lookup.venue))
                 ELSE NoLimit]

\* passes(a) for each article of the list, in order
PassesEach(articles, lookups, min_citations, min_h_index) ==
    [i \in 1..Len(articles) |->
        LET m == score_article(articles[i], min_h_index, lookups[i])
        IN  passes(min_citations, min_h_index, m.citations, m.h_index)]

\* ArticleFilter.filter_articles, lookups[i] what the metrics service
\* answers for the i-th article; score_article leaves the metrics on the
\* article
RECURSIVE filter_articles(_, _, _, _)
filter_articles(articles, lookups, min_citations, min_h_index) ==
    IF articles = <<>> THEN <<>>
    ELSE LET m == score_article(Head(articles), min_h_index, Head(lookups))
             a == [Head(articles) EXCEPT !.metrics = m]
             rest == filter_articles(Tail(articles), Tail(lookups),
                                     min_citations, min_h_index)
         IN  IF passes(min_citations, min_h_index, m.citations, m.h_index)
             THEN <<a>> \o rest ELSE rest

\* the last n articles instead of the first
CappedFromEnd(articles, n) ==
    IF Len(articles) > n
    THEN SubSeq(articles, Len(articles) - n + 1, Len(articles))
    ELSE articles

\* quality_articles[:max_articles_to_process]
Capped(articles, n) ==
    IF Len(articles) > n THEN SubSeq(articles, 1, n) ELSE articles

\* the configuration of the modelled runs
Topics == <<<<"a">>>>
MinCitations == 1
MinHIndex == 0
Readers == <<[name |-> <<"s">>, kind |-> "api"],
             [name |-> <<"t">>, kind |-> "rss"]>>

\* the article APIReader._extract_article_data builds: a title that is not
\* empty, url and content empty unless the response has them, the reader's
\* name as source
Fetched(url, title, content, source) ==
    [url |-> Txt(url), title |-> Txt(title), source |-> Txt(source),
     content |-> Txt(content), journal |-> Absent, metrics |-> Absent,
     summary |-> Absent]

\* what the API of a reader may hold: two entries under one url, an entry
\* without url that matches no topic, an entry without url and content
Entries(name) ==
    {Fetched(<<"u">>, <<"a">>, <<"c">>, name),
     Fetched(<<"u">>, <<"a", "b">>, <<"c">>, name),
     Fetched(EmptyText, <<"b">>, <<"c">>, name),
     Fetched(EmptyText, <<"a">>, EmptyText, name)}

RECURSIVE ListsUpTo(_, _)
ListsUpTo(S, n) ==
    IF n = 0 THEN {<<>>}
    ELSE LET shorter == ListsUpTo(S, n - 1)
         IN  shorter \cup {Append(l, x) : l \in shorter, x \in S}

Step(op, arg) == Call(op, arg, Absent, FALSE, FALSE, Returned(FALSE))

\* a failure that ends the run: straight to the return
AbortRun ==
    /\ reader' = reader + 1
    /\ pc' = "return"
    /\ batch' = <<>>
    /\ item' = 0
    /\ pending' = Absent
    /\ fetched' = <<>>
    /\ passed' = <<>>

\* the outer "except Exception" of the reader loop, and the end of a
\* reader's articles: on to the next reader, or to the return
NextReader ==
    /\ reader' = reader + 1
    /\ pc' = IF reader < Len(Readers) THEN "fetch" ELSE "return"
    /\ batch' = <<>>
    /\ item' = 0
    /\ pending' = Absent
    /\ fetched' = <<>>
    /\ passed' = <<>>

\* lines 64-89: readers, tracker (schema and migration), quality filter,
\* retention sweep
StartRun ==
    LET m == migrate_from_json(table, legacy, now, NoFailure)
        cutoff == now - RetentionDays * TicksPerDay
        left == IF cutoff >= 0 THEN DeleteOlder(m.table, isoformat(cutoff))
                ELSE m.table
    IN  /\ pc = "idle"
        /\ opened' = TRUE
        /\ table' = left
        /\ legacy' = m.legacy
        /\ everMigrated' = everMigrated \cup
                           {r.article_id : r \in m.table \ table}
        /\ lastMark' = {p \in lastMark : Exists(left, p[1])}
        /\ summarized' = {id \in summarized :
                             Exists(table, id) => Exists(left, id)}
        /\ new_articles' = <<>>
        /\ reader' = 1
        /\ pc' = IF Len(Readers) > 0 THEN "fetch" ELSE "return"
        /\ last' = Step("start", Absent)
        /\ UNCHANGED <<now, everMarked, idVars, auxVars, batch, item, pending,
                       fetched, passed>>

\* line 94-95 on an APIReader: the list of articles, or the exception
\* fetch_articles re-raises
FetchApi ==
    /\ pc = "fetch"
    /\ Readers[reader].kind = "api"
    /\ \/ /\ \E l \in ListsUpTo(Entries(Readers[reader].name), MaxFetch) :
                batch' = l /\ fetched' = l
          /\ pc' = "topic"
          /\ last' = Call("fetch", Absent, Absent, FALSE, FALSE,
                          Returned(TRUE))
          /\ UNCHANGED <<reader, item, pending, passed>>
       \/ /\ NextReader
          /\ last' = Call("fetch", Absent, Absent, TRUE, FALSE, Raised)
    /\ UNCHANGED <<storeVars, histVars, idVars, auxVars, new_articles, summarized>>

\* line 94-95 on an RSSReader: fetch_articles is a coroutine function, the
\* call returns a coroutine object and len() of it raises TypeError
FetchRss ==
    /\ pc = "fetch"
    /\ Readers[reader].kind = "rss"
    /\ NextReader
    /\ last' = Call("fetch", Absent, Absent, TRUE, FALSE, Raised)
    /\ UNCHANGED <<storeVars, histVars, idVars, auxVars, new_articles, summarized>>

\* line 98
TopicFilter ==
    LET out == filter_by_topics(batch, Topics)
    IN  /\ pc = "topic"
        /\ IF out.raised THEN NextReader
           ELSE /\ batch' = out.val
                /\ pc' = "dedup"
                /\ UNCHANGED <<reader, item, pending, fetched, passed>>
        /\ last' = Step("topic", Absent)
        /\ UNCHANGED <<storeVars, histVars, idVars, auxVars, new_articles, summarized>>

\* lines 102-105; is_processed lets a failure of the connection through
DedupFilter(fail) ==
    LET out == Unprocessed(batch, table)
    IN  /\ pc = "dedup"
        /\ IF out.raised \/ (fail /\ batch # <<>>) THEN NextReader
           ELSE /\ batch' = out.val
                /\ pc' = "quality"
                /\ UNCHANGED <<reader, item, pending, fetched, passed>>
        /\ last' = Call("dedup", Absent, Absent, fail, FALSE, Returned(FALSE))
        /\ UNCHANGED <<storeVars, histVars, idVars, auxVars, new_articles, summarized>>

\* line 110: the citation counts are whatever the lookups return
QualityFilter ==
    /\ pc = "quality"
    /\ \E cites \in [1..Len(batch) -> 0..MinCitations] :
          batch' = filter_articles(batch,
                       [i \in 1..Len(batch) |-> Lookup(cites[i], LookupFailed)],
                       MinCitations, MinHIndex)
    /\ passed' = batch'
    /\ pc' = "cap"
    /\ last' = Step("quality", Absent)
    /\ UNCHANGED <<storeVars, histVars, idVars, auxVars, reader, item, pending,
                   new_articles, summarized, fetched>>

\* every article that passed the quality filter goes on
CapKeepingAll ==
    /\ pc = "cap"
    /\ IF batch = <<>> THEN NextReader
       ELSE /\ pc' = "summarize"
            /\ item' = 1
            /\ UNCHANGED <<reader, batch, pending, fetched, passed>>
    /\ last' = Step("cap", Absent)
    /\ UNCHANGED <<storeVars, histVars, idVars, auxVars, new_articles, summarized>>

\* line 117, and the start of the loop of line 122
Cap ==
    LET kept == Capped(batch, MaxArticlesToProcess)
    IN  /\ pc = "cap"
        /\ IF kept = <<>> THEN NextReader
           ELSE /\ batch' = kept
                /\ pc' = "summarize"
                /\ item' = 1
                /\ UNCHANGED <<reader, pending, fetched, passed>>
        /\ last' = Step("cap", Absent)
        /\ UNCHANGED <<storeVars, histVars, idVars, auxVars, new_articles, summarized>>

\* summarize_article: the fixed text for an article without content, else
\* the model's answer or one of the canned summaries; it catches whatever
\* is raised on the way
NoContentSummary == Txt(<<"0">>)
summarize_article(article) ==
    IF ~Truthy(article.content) THEN {NoContentSummary} ELSE Summaries

\* a summarization that raises ends the articles of the source
SummarizeOrSkipSource(fail) ==
    /\ pc = "summarize"
    /\ NextReader
    /\ last' = Call("summarize", batch[item], Absent, TRUE, FALSE, Raised)
    /\ UNCHANGED <<storeVars, histVars, idVars, auxVars, new_articles,
                   summarized>>

\* lines 123-132 and 141-142: summarize_article and
\* article['summary'] = summary; when the call raises (fail), the handler of
\* line 141 logs it and the loop goes on with the next article
Summarize(fail) ==
    /\ pc = "summarize"
    /\ IF fail
       THEN /\ IF item < Len(batch)
               THEN /\ item' = item + 1
                    /\ UNCHANGED <<pc, reader, batch, pending, fetched, passed>>
               ELSE NextReader
            /\ last' = Call("summarize", batch[item], Absent, TRUE, FALSE,
                            Raised)
            /\ UNCHANGED summarized
       ELSE /\ \E s \in summarize_article(batch[item]) :
                  /\ pending' = s
                  /\ batch' = [batch EXCEPT ![item].summary = s]
                  /\ last' = Call("summarize", batch[item], s, FALSE, FALSE,
                                  Returned(TRUE))
            /\ summarized' = summarized
                              \cup {get_article_id(batch[item]).val.v}
            /\ pc' = "mark"
            /\ UNCHANGED <<reader, item, fetched, passed>>
    /\ UNCHANGED <<storeVars, histVars, idVars, auxVars, new_articles>>

\* an article whose record could not be written is left out of the articles
\* to return
MarkSummarizedOrDrop(fail) ==
    LET article == batch[item]
        id == get_article_id(article)
        ok == ~id.raised /\ ~ViolatesNotNull(article) /\ ~fail
    IN  /\ pc = "mark"
        /\ table' = IF id.raised THEN table
                    ELSE Written(table,
                                 MarkRow(article, id.val.v, pending, now), ok)
        /\ lastMark' = IF ok
                       THEN {p \in lastMark : p[1] # id.val.v}
                            \cup {<<id.val.v, pending>>}
                       ELSE lastMark
        /\ everMarked' = IF ok THEN everMarked \cup {id.val.v} ELSE everMarked
        /\ new_articles' = IF ok THEN Append(new_articles, article)
                           ELSE new_articles
        /\ IF item < Len(batch)
           THEN /\ item' = item + 1
                /\ pc' = "summarize"
                /\ pending' = Absent
                /\ UNCHANGED <<reader, batch, fetched, passed>>
           ELSE NextReader
        /\ last' = Call("mark_processed", article, pending, fail,
                        ~id.raised /\ Exists(table, id.val.v), Returned(ok))
        /\ UNCHANGED <<legacy, opened, now, everMigrated, idVars, auxVars,
                       summarized>>

\* lines 135-138: tracker.mark_processed(article, summary) and
\* new_articles.append(article), then the next article or the next reader
MarkSummarized(fail) ==
    LET article == batch[item]
        id == get_article_id(article)
        ok == ~id.raised /\ ~ViolatesNotNull(article) /\ ~fail
    IN  /\ pc = "mark"
        /\ table' = IF id.raised THEN table
                    ELSE Written(table,
                                 MarkRow(article, id.val.v, pending, now), ok)
        /\ lastMark' = IF ok
                       THEN {p \in lastMark : p[1] # id.val.v}
                            \cup {<<id.val.v, pending>>}
                       ELSE lastMark
        /\ everMarked' = IF ok THEN everMarked \cup {id.val.v} ELSE everMarked
        /\ new_articles' = Append(new_articles, article)
        /\ IF item < Len(batch)
           THEN /\ item' = item + 1
                /\ pc' = "summarize"
                /\ pending' = Absent
                /\ UNCHANGED <<reader, batch, fetched, passed>>
           ELSE NextReader
        /\ last' = Call("mark_processed", article, pending, fail,
                        ~id.raised /\ Exists(table, id.val.v), Returned(ok))
        /\ UNCHANGED <<legacy, opened, now, everMigrated, idVars, auxVars, summarized>>

\* lines 147-153: return new_articles
Return ==
    /\ pc = "return"
    /\ pc' = "idle"
    /\ reader' = 0
    /\ last' = Call("process_articles", Absent, Absent, FALSE, FALSE,
                    Returned(new_articles))
    /\ UNCHANGED <<storeVars, histVars, idVars, auxVars, batch, item, pending,
                   new_articles, summarized, fetched, passed>>

\* time passes between the runs the scheduler starts
TickIdle == pc = "idle" /\ Tick

NextRun ==
    \/ StartRun
    \/ FetchApi
    \/ FetchRss
    \/ TopicFilter
    \/ \E fail \in BOOLEAN : DedupFilter(fail)
    \/ QualityFilter
    \/ Cap
    \/ \E fail \in BOOLEAN : Summarize(fail)
    \/ \E fail \in BOOLEAN : MarkSummarized(fail)
    \/ Return
    \/ TickIdle

SpecRun == Init /\ [][NextRun]_vars

(***************************************************************************)
(* Properties of the pipeline.                                             *)
(***************************************************************************)
\* C1: an article whose identity was summarized before, and whose record no
\* retention sweep has removed since, is not handed to the summarizer again.
C1_NoSecondSummary ==
    [][last'.op = "summarize" /\ pc = "summarize"
          => get_article_id(last'.arg).val.v \notin summarized]_vars

(***************************************************************************)
(* The migration of processed_articles.json: a directory that holds no     *)
(* legacy file, an empty one, or one of one or two records (the last of    *)
(* them with a null title), opened again and again while records are       *)
(* marked and swept.                                                       *)
(***************************************************************************)
MigrateFiles ==
    {NoLegacy, LegacyFile(<<>>), LegacyFile(<<LegacyU>>),
     LegacyFile(<<LegacyU, LegacyV>>), LegacyFile(<<LegacyV, LegacyBad>>)}

InitMigrate ==
    /\ table = {}
    /\ legacy \in MigrateFiles
    /\ opened = FALSE
    /\ now = 0
    /\ last = NoCall
    /\ lastMark = {}
    /\ everMarked = {}
    /\ everMigrated = {}
    /\ idArg = NoArticle
    /\ idOut = <<>>
    /\ RunIdle
    /\ AuxIdle

NextMigrate ==
    \/ \E fail \in FailurePoints : Construct(fail)
    \/ \E s \in Summaries : mark_processed(Article1, s, FALSE)
    \/ is_processed(Article1)
    \/ clear_older_than(IntVal(1), FALSE)
    \/ Tick

SpecMigrate == InitMigrate /\ [][NextMigrate]_vars

(***************************************************************************)
(* Properties of the migration.                                            *)
(***************************************************************************)
LegacyIds(leg) == {leg.data[i].article_id : i \in 1..Len(leg.data)}
LegacyEntries(leg) == {leg.data[i] : i \in 1..Len(leg.data)}

\* the row carries every field the legacy record has
CarriesLegacyFields(r, e) ==
    /\ r.article_id = e.article_id
    /\ e.title.k = "text" => r.title = e.title.v
    /\ e.source.k = "text" => r.source = e.source.v
    /\ e.url.k = "text" => r.url = e.url
    /\ e.summary.k = "text" => r.summary = e.summary
    /\ e.processed_date.k = "text" => r.processed_date = e.processed_date.v

\* C11: after a pass over a legacy file that ends without an exception,
\* every legacy identity has a row; an identity that had a row keeps that
\* row as it was, every other legacy record is inserted with its fields, and
\* the rows of other identities stay.
C11_MigrationCopiesRecords ==
    [][last'.op = "init" /\ legacy.state = "present" /\ ~last'.ret.val
       => /\ \A e \in LegacyEntries(legacy) :
                IF HasRecord(table, e.article_id)
                THEN RecordsOf(table', e.article_id)
                         = RecordsOf(table, e.article_id)
                ELSE /\ Cardinality(RecordsOf(table', e.article_id)) = 1
                     /\ \A r \in RecordsOf(table', e.article_id) :
                           CarriesLegacyFields(r, e)
          /\ table \subseteq table']_vars

\* C11 witness: a pass has ended without an exception after it kept the row
\* of one legacy identity, marked since with a summary, and inserted another
C11_Witness ==
    /\ last.op = "init"
    /\ ~last.ret.val
    /\ last.pre
    /\ last.aux # {}
    /\ \E r \in table : r.article_id = <<"u">> /\ r.summary = Txt(<<"1">>)
    /\ \E r \in table : r.article_id = <<"v">>

\* C12: a pass over a legacy file that ends without an exception leaves the
\* file renamed, and an initialization that finds the file renamed migrates
\* nothing.
C12_RenamedAfterCleanPass ==
    [][last'.op = "init"
       => /\ legacy.state = "present" /\ ~last'.ret.val
             => legacy'.state = "renamed"
          /\ legacy.state = "renamed"
             => table' = table /\ legacy' = legacy]_vars

\* C13: an exception in the migration is caught, the tracker is constructed
\* and the legacy file stays as it was; the file is renamed only by a pass
\* that raised nothing and left a row for every legacy identity.
C13_FailureKeepsLegacyFile ==
    [][last'.op = "init"
       => /\ opened'
          /\ ~last'.ret.raised
          /\ last'.ret.val => legacy' = legacy /\ legacy.state = "present"
          /\ legacy'.state = "renamed" /\ legacy.state = "present"
             => /\ ~last'.ret.val
                /\ \A id \in LegacyIds(legacy) : HasRecord(table', id)]_vars

\* C13 witness: a pass has raised after it inserted a row, the tracker is
\* constructed and the legacy file is still in place
C13_Witness ==
    /\ last.op = "init"
    /\ last.ret.val
    /\ last.aux # {}
    /\ opened
    /\ legacy.state = "present"

\* C14: when the pass fails part-way through the legacy records, the rows it
\* had copied before the failure are in the store after the initialization.
C14_CopiedRowsSurviveFailure ==
    [][last'.op = "init" /\ last'.ret.val /\ ~last'.fail
       => last'.aux \subseteq table']_vars

(***************************************************************************)
(* ArticleFilter on its own: a list of articles with and without a         *)
(* journal, filtered under every pair of thresholds and every answer of    *)
(* the metrics service.                                                    *)
(***************************************************************************)
QualityItem(title, journal) ==
    [Fetched(EmptyText, title, EmptyText, <<"s">>) EXCEPT !.journal = journal]

QualityItems ==
    {QualityItem(<<"a">>, Absent),
     QualityItem(<<"b">>, Txt(<<"j">>)),
     QualityItem(<<"c">>, Txt(EmptyText))}

Lookups ==
    {Lookup(c, v) : c \in 0..MaxMetric,
                    v \in {LookupFailed}
                          \cup {VenueHIndex(h) : h \in 0..MaxMetric}}

Thresholds(min_citations, min_h_index) ==
    [min_citations |-> min_citations, min_h_index |-> min_h_index]

InitQuality ==
    /\ table = {}
    /\ legacy = NoLegacy
    /\ opened = FALSE
    /\ now = 0
    /\ last = NoCall
    /\ lastMark = {}
    /\ everMarked = {}
    /\ everMigrated = {}
    /\ idArg = NoArticle
    /\ idOut = <<>>
    /\ pc = "idle"
    /\ reader = 0
    /\ batch \in ListsUpTo(QualityItems, MaxQualityItems)
    /\ item = 0
    /\ pending = Absent
    /\ new_articles = <<>>
    /\ summarized = {}
    /\ fetched = <<>>
    /\ passed = <<>>
    /\ AuxIdle

\* ArticleFilter(config).filter_articles(batch), called once on the list
FilterArticles(min_citations, min_h_index, lookups) ==
    /\ last = NoCall
    /\ last' = Call("filter_articles",
                    Thresholds(min_citations, min_h_index), lookups,
                    FALSE, FALSE,
                    Returned([passed |-> PassesEach(batch, lookups,
                                             min_citations, min_h_index),
                              kept |-> filter_articles(batch, lookups,
                                             min_citations, min_h_index)]))
    /\ UNCHANGED <<storeVars, histVars, idVars, auxVars, runVars>>

NextQuality ==
    \E min_citations \in 0..MaxMetric, min_h_index \in 0..MaxMetric,
       lookups \in [1..Len(batch) -> Lookups] :
        FilterArticles(min_citations, min_h_index, lookups)

SpecQuality == InitQuality /\ [][NextQuality]_vars

(***************************************************************************)
(* Properties of the quality filter.  An h-index is resolved for an        *)
(* article when min_h_index is set, the article has a journal and the       *)
(* request for the journal is answered.                                    *)
(***************************************************************************)
BelowCitations(th, lookup) ==
    th.min_citations # 0 /\ lookup.citations < th.min_citations

HIndexResolved(th, article, lookup) ==
    /\ th.min_h_index # 0
    /\ article.journal.k = "text" /\ article.journal.v # EmptyText
    /\ ~lookup.venue.failed

BelowHIndex(th, article, lookup) ==
    HIndexResolved(th, article, lookup) /\ lookup.venue.h < th.min_h_index

RECURSIVE KeptInOrder(_, _)
KeptInOrder(articles, keep) ==
    IF articles = <<>> THEN <<>>
    ELSE (IF Head(keep) THEN <<Head(articles)>> ELSE <<>>)
         \o KeptInOrder(Tail(articles), Tail(keep))

WithoutMetrics(articles) ==
    [i \in 1..Len(articles) |-> [articles[i] EXCEPT !.metrics = Absent]]

PassesByThresholds(i) ==
    last.ret.val.passed[i] =
        ~(\/ BelowCitations(last.arg, last.aux[i])
          \/ BelowHIndex(last.arg, batch[i], last.aux[i]))

\* C15: passes is false exactly when the citation count is below a set
\* min_citations or an h-index was resolved and is below a set min_h_index
\* (a value equal to the threshold passes, a threshold of 0 checks nothing),
\* and filter_articles returns the passing articles in their input order.
C15_PassesExactlyAboveThresholds ==
    last.op = "filter_articles" =>
        /\ \A i \in 1..Len(batch) : PassesByThresholds(i)
        /\ WithoutMetrics(last.ret.val.kept)
               = KeptInOrder(batch, last.ret.val.passed)

\* the same, for the articles whose journal request is answered
C15_PassesWhenLookupsAnswer ==
    last.op = "filter_articles" =>
        /\ \A i \in 1..Len(batch) :
              ~last.aux[i].venue.failed => PassesByThresholds(i)
        /\ WithoutMetrics(last.ret.val.kept)
               = KeptInOrder(batch, last.ret.val.passed)

\* C16: an article without a journal, or whose journal request fails, is
\* not rejected on the h-index: it passes unless its citation count is below
\* a set min_citations.
C16_NoHIndexNeverRejects ==
    last.op = "filter_articles" =>
        \A i \in 1..Len(batch) :
            /\ \/ ~Truthy(batch[i].journal)
               \/ last.aux[i].venue.failed
            /\ ~BelowCitations(last.arg, last.aux[i])
            => last.ret.val.passed[i]

\* the same, for the articles without a journal
C16_NoJournalNeverRejects ==
    last.op = "filter_articles" =>
        \A i \in 1..Len(batch) :
            /\ ~Truthy(batch[i].journal)
            /\ ~BelowCitations(last.arg, last.aux[i])
            => last.ret.val.passed[i]

(***************************************************************************)
(* The relevance scorer (src/src/utils/relevance_scorer.py).  A score is   *)
(* the exact fraction num/den of the value the code computes in floating   *)
(* point: the title score counts halves, the content score tenths, the     *)
(* phrase score quarters.                                                  *)
(***************************************************************************)
\* str.split(): the maximal runs of characters that are not whitespace
RECURSIVE Words(_)
Words(t) ==
    IF t = <<>> THEN <<>>
    ELSE IF Head(t) = Space THEN Words(Tail(t))
    ELSE LET n == CHOOSE k \in 1..Len(t) :
                     /\ \A i \in 1..k : t[i] # Space
                     /\ k = Len(t) \/ t[k + 1] = Space
         IN  <<SubSeq(t, 1, n)>> \o Words(SubSeq(t, n + 1, Len(t)))

Min(a, b) == IF a < b THEN a ELSE b
Max(a, b) == IF a > b THEN a ELSE b

\* a topic scored as if every match of one of its words were a match of
\* the phrase
WordAsPhrase_TopicScore(topic, title, full_text) ==
    LET words == Words(topic)
        AnyWordIn(t) == \E i \in 1..Len(words) : Contains(words[i], t)
    IN  [title |-> IF AnyWordIn(title) THEN 2 ELSE 0,
         phrase |-> 0,
         content |-> IF AnyWordIn(full_text) THEN 10 ELSE 0]

\* what one topic adds to the three scores (lines 47-69)
TopicScore(topic, title, full_text) ==
    LET words == Words(topic)
        AnyWordIn(t) == \E i \in 1..Len(words) : Contains(words[i], t)
    IN  IF Len(words) > 1
        THEN [title |-> IF Contains(topic, title) THEN 2
                        ELSE IF AnyWordIn(title) THEN 1 ELSE 0,
              phrase |-> (IF Contains(topic, title) THEN 2 ELSE 0)
                         + (IF Contains(topic, full_text) THEN 1 ELSE 0),
              content |-> IF Contains(topic, full_text) THEN 10
                          ELSE IF AnyWordIn(full_text) THEN 3 ELSE 0]
        ELSE [title |-> IF Contains(topic, title) THEN 2 ELSE 0,
              phrase |-> 0,
              content |-> IF Contains(topic, full_text) THEN 5 ELSE 0]

RECURSIVE SumScores(_, _, _)
SumScores(topics, title, full_text) ==
    IF topics = <<>> THEN [title |-> 0, phrase |-> 0, content |-> 0]
    ELSE LET h == TopicScore(Lower(Strip(Head(topics))), title, full_text)
             r == SumScores(Tail(topics), title, full_text)
         IN  [title |-> h.title + r.title,
              phrase |-> h.phrase + r.phrase,
              content |-> h.content + r.content]

Score(num, den) == [num |-> num, den |-> den]

\* the scorer without the neutral score for no topics and without the
\* normalisation by the number of topics
Raw_calculate_relevance_score(article, topics) ==
    LET title == Lower(Get(article.title, Txt(EmptyText)).v)
        full_text == Lower(Get(article.content, Txt(EmptyText)).v)
                     \o <<Space>>
                     \o Lower(Get(article.summary, Txt(EmptyText)).v)
        sum == SumScores(topics, title, full_text)
    IN  Score(sum.title * 1000 + sum.content * 140 + sum.phrase * 150, 4000)

\* calculate_relevance_score: 0.5 for no topics, else
\* min(title/n, 1) * 0.5 + min(content/n, 1) * 0.35 + min(phrase/n, 1) * 0.15
\* clamped to [0, 1]
calculate_relevance_score(article, topics) ==
    IF topics = <<>> THEN Score(1, 2)
    ELSE LET title == Lower(Get(article.title, Txt(EmptyText)).v)
             full_text == Lower(Get(article.content, Txt(EmptyText)).v)
                          \o <<Space>>
                          \o Lower(Get(article.summary, Txt(EmptyText)).v)
             sum == SumScores(topics, title, full_text)
             n == Len(topics)
             final == Min(sum.title, 2 * n) * 1000
                      + Min(sum.content, 10 * n) * 140
                      + Min(sum.phrase, 4 * n) * 150
         IN  Score(Min(Max(final, 0), 4000 * n), 4000 * n)

\* round(score, 3) in thousandths; when the exact value lies half-way the
\* binary value of the float decides, up tells which way
Round3(score, up) ==
    LET q == (score.num * 1000) \div score.den
        r == (score.num * 1000) % score.den
    IN  IF 2 * r < score.den THEN q
        ELSE IF 2 * r > score.den THEN q + 1
        ELSE IF up THEN q + 1 ELSE q

\* list.sort on the reversed order of the key without stability: an article
\* goes in front of the ones of equal score
RECURSIVE InsertBeforeEqual(_, _)
InsertBeforeEqual(a, ranked) ==
    IF ranked = <<>> THEN <<a>>
    ELSE IF Head(ranked).relevance_score > a.relevance_score
    THEN <<Head(ranked)>> \o InsertBeforeEqual(a, Tail(ranked))
    ELSE <<a>> \o ranked

\* sorted(..., reverse=True) is stable: an article goes behind every one
\* whose score is at least its own
RECURSIVE InsertRanked(_, _)
InsertRanked(a, ranked) ==
    IF ranked = <<>> THEN <<a>>
    ELSE IF Head(ranked).relevance_score >= a.relevance_score
    THEN <<Head(ranked)>> \o InsertRanked(a, Tail(ranked))
    ELSE <<a>> \o ranked

RECURSIVE SortedByScore(_)
SortedByScore(articles) ==
    IF articles = <<>> THEN <<>>
    ELSE InsertRanked(articles[Len(articles)],
                      SortedByScore(SubSeq(articles, 1, Len(articles) - 1)))

\* score_and_rank_articles
score_and_rank_articles(articles, topics, ups) ==
    SortedByScore(
        [i \in 1..Len(articles) |->
            [relevance_score |->
                 Round3(calculate_relevance_score(articles[i], topics),
                        ups[i])] @@ articles[i]])

(***************************************************************************)
(* The scorer on two articles of the same content, under topic lists of    *)
(* one-word and two-word topics; and the ranking of short lists.           *)
(***************************************************************************)
RelevanceTitles == TextsUpTo({"a", "b", Space}, MaxTitleLen)

RelevanceArticle(title, content) ==
    Fetched(EmptyText, title, content, <<"s">>)

TopicLists ==
    {<<>>,
     << <<"a">> >>,
     << <<"a", " ", "b">> >>,
     << <<"A", " ", "b">> >>,
     << <<" ", "b", " ", "a", " ">> >>,
     << <<"a", " ", "b">>, <<"b">> >>,
     << <<"b">>, <<"a">> >>,
     << <<"a", " ", "b">>, <<"b", " ", "a">> >>}

InitRelevance ==
    /\ table = {}
    /\ legacy = NoLegacy
    /\ opened = FALSE
    /\ now = 0
    /\ last = NoCall
    /\ lastMark = {}
    /\ everMarked = {}
    /\ everMigrated = {}
    /\ idArg = NoArticle
    /\ idOut = <<>>
    /\ pc = "idle"
    /\ reader = 0
    /\ \E t1, t2 \in RelevanceTitles :
          \E c \in {EmptyText, <<"a", " ", "b">>} :
              batch = <<RelevanceArticle(t1, c), RelevanceArticle(t2, c)>>
    /\ item = 0
    /\ pending = Absent
    /\ new_articles = <<>>
    /\ summarized = {}
    /\ fetched = <<>>
    /\ passed = <<>>
    /\ AuxIdle

\* score_and_rank_articles(batch, topics), called once on the list; the
\* call is recorded with the value calculate_relevance_score returned for
\* each article
ScoreAndRank(topics, ups) ==
    /\ last = NoCall
    /\ last' = Call("score_and_rank_articles", topics, Absent, FALSE, FALSE,
                    Returned(
                        [scores |-> [i \in 1..Len(batch) |->
                             calculate_relevance_score(batch[i], topics)],
                         ranked |-> score_and_rank_articles(batch, topics,
                                                            ups)]))
    /\ UNCHANGED <<storeVars, histVars, idVars, auxVars, runVars>>

NextRelevance ==
    \E topics \in TopicLists, ups \in [1..Len(batch) -> BOOLEAN] :
        ScoreAndRank(topics, ups)

SpecRelevance == InitRelevance /\ [][NextRelevance]_vars

RankArticles ==
    {RelevanceArticle(t, EmptyText) :
        t \in {EmptyText, <<"a">>, <<"b">>, <<"a", " ", "b">>}}

InitRank ==
    /\ table = {}
    /\ legacy = NoLegacy
    /\ opened = FALSE
    /\ now = 0
    /\ last = NoCall
    /\ lastMark = {}
    /\ everMarked = {}
    /\ everMigrated = {}
    /\ idArg = NoArticle
    /\ idOut = <<>>
    /\ pc = "idle"
    /\ reader = 0
    /\ batch \in ListsUpTo(RankArticles, MaxRankItems)
    /\ item = 0
    /\ pending = Absent
    /\ new_articles = <<>>
    /\ summarized = {}
    /\ fetched = <<>>
    /\ passed = <<>>
    /\ AuxIdle

SpecRank == InitRank /\ [][NextRelevance]_vars

(***************************************************************************)
(* Properties of the relevance scorer.                                     *)
(***************************************************************************)
\* C17: calculate_relevance_score returns a value within [0, 1], and
\* exactly 0.5 for every article when the topic list is empty.
C17_ScoreInUnitInterval ==
    last.op = "score_and_rank_articles" =>
        \A i \in 1..Len(batch) :
            LET score == last.ret.val.scores[i]
            IN  /\ score.den > 0
                /\ 0 <= score.num /\ score.num <= score.den
                /\ last.arg = <<>> => 2 * score.num = score.den

\* C17 witness: an article whose title and content match both of two
\* topics has scored above 0.8
C17_Witness ==
    /\ last.op = "score_and_rank_articles"
    /\ Len(last.arg) = 2
    /\ \E i \in 1..Len(batch) :
          10 * last.ret.val.scores[i].num > 8 * last.ret.val.scores[i].den

\* a topic of several words, as the scorer reads it
TopicPhrase(topic) == Lower(Strip(topic))
MultiWord(topic) == Len(Words(TopicPhrase(topic))) > 1
TitleOf(article) == Lower(article.title.v)

\* C18: under one topic of several words, an article whose title holds the
\* exact phrase scores strictly higher than an article, equal in everything
\* but the title, whose title holds one of the topic's words and not the
\* phrase.
C18_PhraseBeatsWord ==
    last.op = "score_and_rank_articles" /\ Len(last.arg) = 1
    /\ MultiWord(last.arg[1]) =>
        \A i, j \in 1..Len(batch) :
            /\ [batch[i] EXCEPT !.title = batch[j].title] = batch[j]
            /\ Contains(TopicPhrase(last.arg[1]), TitleOf(batch[i]))
            /\ ~Contains(TopicPhrase(last.arg[1]), TitleOf(batch[j]))
            /\ \E w \in 1..Len(Words(TopicPhrase(last.arg[1]))) :
                  Contains(Words(TopicPhrase(last.arg[1]))[w],
                           TitleOf(batch[j]))
            => last.ret.val.scores[i].num * last.ret.val.scores[j].den
                   > last.ret.val.scores[j].num * last.ret.val.scores[i].den

\* C18 witness: the titles "a b" and "b" have been scored under the topic
\* "a b"
C18_Witness ==
    /\ last.op = "score_and_rank_articles"
    /\ last.arg = << <<"a", " ", "b">> >>
    /\ batch[1].title = Txt(<<"a", " ", "b">>)
    /\ batch[2].title = Txt(<<"b">>)

WithoutScore(a) == [f \in DOMAIN a \ {"relevance_score"} |-> a[f]]

\* the positions of the input in the order of the result: sigma[k] is the
\* input position of the k-th article returned
IsRankingOf(ranked, articles, sigma) ==
    /\ \A k \in 1..Len(ranked) : WithoutScore(ranked[k]) = articles[sigma[k]]
    /\ \A k, l \in 1..Len(ranked) : k # l => sigma[k] # sigma[l]
    /\ \A k, l \in 1..Len(ranked) :
          k < l =>
             \/ ranked[k].relevance_score > ranked[l].relevance_score
             \/ /\ ranked[k].relevance_score = ranked[l].relevance_score
                /\ sigma[k] < sigma[l]

\* C19: score_and_rank_articles returns a permutation of its input in
\* non-increasing order of relevance_score, every article carrying its
\* relevance_score, articles of equal score in their input order.
C19_StableRanking ==
    last.op = "score_and_rank_articles" =>
        LET ranked == last.ret.val.ranked
        IN  /\ Len(ranked) = Len(batch)
            /\ \A k \in 1..Len(ranked) :
                  /\ "relevance_score" \in DOMAIN ranked[k]
                  /\ \E i \in 1..Len(batch) :
                        /\ WithoutScore(ranked[k]) = batch[i]
                        /\ \E up \in BOOLEAN :
                              ranked[k].relevance_score
                                  = Round3(last.ret.val.scores[i], up)
            /\ \E sigma \in [1..Len(ranked) -> 1..Len(batch)] :
                  IsRankingOf(ranked, batch, sigma)

\* C19 witness: three articles have been ranked, the first two of equal
\* score and the third above them
C19_Witness ==
    /\ last.op = "score_and_rank_articles"
    /\ Len(batch) = 3
    /\ batch[1] # batch[2]
    /\ WithoutScore(last.ret.val.ranked[1]) = batch[3]
    /\ WithoutScore(last.ret.val.ranked[2]) = batch[1]
    /\ WithoutScore(last.ret.val.ranked[3]) = batch[2]
    /\ last.ret.val.ranked[2].relevance_score
           = last.ret.val.ranked[3].relevance_score
    /\ last.ret.val.ranked[1].relevance_score
           > last.ret.val.ranked[2].relevance_score

(***************************************************************************)
(* The order of the stages of a run.                                       *)
(***************************************************************************)
Stages == <<"fetch", "topic", "dedup", "quality", "cap", "summarize", "mark">>

\* the place of a stage in Fetch, TopicFilter, DedupFilter, QualityFilter,
\* Cap, Summarize, MarkProcessed; 0 when the run is in no stage
StageOf(p) ==
    IF \E k \in 1..Len(Stages) : Stages[k] = p
    THEN CHOOSE k \in 1..Len(Stages) : Stages[k] = p
    ELSE 0

\* C20: within a run the stages follow one another in the order Fetch,
\* TopicFilter, DedupFilter, QualityFilter, Cap, Summarize, MarkProcessed:
\* a stage is entered from the stage before it, and the run never goes from
\* a stage to an earlier one.
C20_StagesNeverGoBack ==
    [][StageOf(pc) > 0 /\ StageOf(pc') > 0 /\ pc' # pc
       => StageOf(pc') = StageOf(pc) + 1]_vars

\* the same per source and article: the run goes back only to fetch the
\* next source or to summarize the next article of the source
C20_StagesOrderedPerArticle ==
    [][StageOf(pc) > 0 /\ StageOf(pc') > 0 /\ pc' # pc
       => \/ StageOf(pc') = StageOf(pc) + 1
          \/ pc' = "fetch" /\ reader' = reader + 1
          \/ pc = "mark" /\ pc' = "summarize" /\ item' = item + 1
                /\ reader' = reader]_vars

(***************************************************************************)
(* Fetching the sources.                                                   *)
(***************************************************************************)
\* the fetch of the r-th reader has returned or raised in the current run
FetchCompleted(r) == r < reader \/ (r = reader /\ pc # "fetch")

\* C21: the fetches of all sources run concurrently and all of them have
\* completed before a later stage (TopicFilter onward) starts for any
\* source; the stages after Fetch run one at a time.
C21_FetchFanInBeforeStages ==
    StageOf(pc) > 1 => \A r \in 1..Len(Readers) : FetchCompleted(r)

\* what the code does instead: one source at a time, each fetched when the
\* sources before it have gone through all their stages
C21_FetchesOneAfterAnother ==
    StageOf(pc) > 0 =>
        /\ reader \in 1..Len(Readers)
        /\ \A r \in 1..Len(Readers) : FetchCompleted(r) <=>
               (r < reader \/ (r = reader /\ StageOf(pc) > 1))

\* C22: a fetch that fails for one source contributes no item and does not
\* abort the run: the articles gathered so far, the store and the clock are
\* as they were before the fetch, as if the source were not configured, and
\* the run goes on with the next source, or returns after the last one.
C22_FailedFetchSkipsSource ==
    [][last'.op = "fetch" /\ last'.ret.raised /\ pc = "fetch" =>
          /\ new_articles' = new_articles
          /\ table' = table
          /\ legacy' = legacy
          /\ now' = now
          /\ batch' = <<>>
          /\ reader' = reader + 1
          /\ pc' = IF reader < Len(Readers) THEN "fetch" ELSE "return"]_vars

\* C22 witness: the fetch of the last source has just failed in a run that
\* holds the summarized articles of another source
C22_Witness ==
    /\ last.op = "fetch"
    /\ last.ret.raised
    /\ pc = "return"
    /\ new_articles # <<>>

(***************************************************************************)
(* Failures inside the loop over the articles of a source.                 *)
(***************************************************************************)
\* the run goes on after the article at index item: to the next article of
\* the source, to the next source, or to the return after the last source
GoesOnAfterItem ==
    IF item < Len(batch)
    THEN /\ pc' = "summarize"
         /\ item' = item + 1
         /\ reader' = reader
         /\ batch' = batch
    ELSE /\ reader' = reader + 1
         /\ pc' = IF reader < Len(Readers) THEN "fetch" ELSE "return"

\* C23: when the summarization of an article fails, the failure is caught:
\* the article is not added to the articles to return and is not marked,
\* it is not summarized again in the run, and the run goes on with the next
\* article of the source or with the next source.
C23_FailedSummaryDropsItem ==
    [][last'.op = "summarize" /\ last'.ret.raised /\ pc = "summarize" =>
          /\ new_articles' = new_articles
          /\ table' = table
          /\ GoesOnAfterItem]_vars

\* C23 witness: the summarization of the first of two articles of a source
\* has just failed and the second one is up next
C23_Witness ==
    /\ last.op = "summarize"
    /\ last.ret.raised
    /\ pc = "summarize"
    /\ item = 2
    /\ last.arg = batch[1]

\* C24: when mark_processed returns False for an article, the article is
\* still added, with its summary, to the articles to return; the write is
\* not tried again and the run goes on with the next article.
C24_FailedWriteKeepsItem ==
    [][last'.op = "mark_processed" /\ ~last'.ret.val /\ pc = "mark" =>
          /\ new_articles' = Append(new_articles, batch[item])
          /\ batch[item].summary = pending
          /\ pending \in Summaries \cup {NoContentSummary}
          /\ GoesOnAfterItem]_vars

\* C24 witness: the write of the first of two articles has just failed, the
\* article is the last of the articles to return and the second one is up
C24_Witness ==
    /\ last.op = "mark_processed"
    /\ ~last.ret.val
    /\ last.fail
    /\ pc = "summarize"
    /\ item = 2
    /\ new_articles # <<>>
    /\ new_articles[Len(new_articles)] = batch[1]
    /\ Truthy(batch[1].summary)

(***************************************************************************)
(* The articles of a source on their way to the summarizer.                *)
(***************************************************************************)
\* an article as the reader returned it: without the metrics and the summary
\* the stages attach to it
AsFetched(a) == [a EXCEPT !.metrics = Absent, !.summary = Absent]
AllAsFetched(l) == [i \in 1..Len(l) |-> AsFetched(l[i])]

\* a is b with some elements left out, the others in the order of b
RECURSIVE IsSubsequence(_, _)
IsSubsequence(a, b) ==
    IF a = <<>> THEN TRUE
    ELSE IF b = <<>> THEN FALSE
    ELSE IF Head(a) = Head(b) THEN IsSubsequence(Tail(a), Tail(b))
    ELSE IsSubsequence(a, Tail(b))

\* the fetched articles that match a topic and have no record in the store
OnTopicAndNew ==
    SelectSeq(fetched, LAMBDA a : /\ MatchesTopic(a, Topics)
                                  /\ ~Exists(table, get_article_id(a).val.v))

C29_MarkedOnlyWithItsSummary ==
    [][pc # "idle" =>
          IF last'.op = "mark_processed"
          THEN /\ pc = "mark"
               /\ last.op = "summarize"
               /\ ~last.ret.raised
               /\ last'.arg = [last.arg EXCEPT !.summary = last.aux]
               /\ last'.aux = last.aux
               /\ item <= Min(Len(passed), MaxArticlesToProcess)
               /\ AsFetched(last'.arg) = AsFetched(passed[item])
               /\ \A r \in (table' \ table) \cup (table \ table') :
                     r.article_id = get_article_id(last'.arg).val.v
          ELSE table' = table]_vars

\* C29 witness: an article has just been marked with its summary in a run
\* whose fetch returned more articles than went on to the summarizer
C29_Witness ==
    /\ last.op = "mark_processed"
    /\ last.ret.val
    /\ pc = "summarize"
    /\ Len(fetched) > Len(batch)
    /\ \E r \in table : /\ r.article_id = get_article_id(last.arg).val.v
                         /\ r.summary = last.aux

(***************************************************************************)
(* The store operations step by step: _get_connection opens the connection *)
(* and sets it up, the body of the operation runs its statements on it,    *)
(* and the finally clause closes it.  Other callers of the same store file *)
(* write between the steps.                                                *)
(***************************************************************************)
MaxConns == 2

SessionOps == {"init_db", "migrate", "is_processed", "mark_processed",
               "get_processed_articles", "clear_older_than", "get_stats"}

\* two articles of different sources
SessionArticles == {Query1, Query3}

SessionArgs(op) ==
    IF op \in {"is_processed", "mark_processed"} THEN SessionArticles
    ELSE IF op = "clear_older_than" THEN {IntVal(RetentionDays)}
    ELSE {Absent}

SessionSummary == Txt(<<"1">>)

\* what an operation gives its caller when its connection or one of its
\* statements fails: mark_processed and clear_older_than catch the exception
\* and return False and 0, _migrate_from_json logs it, the others let it pass
Failed(op) ==
    IF op = "mark_processed" THEN Returned(FALSE)
    ELSE IF op = "clear_older_than" THEN Returned(0)
    ELSE IF op = "migrate" THEN Returned(Absent)
    ELSE Raised

\* lines 60-63: sqlite3.connect, the two PRAGMA statements and row_factory,
\* all before the try; fail is the statement that raises
GetConnection(op, arg, fail) ==
    /\ opened
    /\ session.pc = "idle"
    /\ conns < MaxConns
    /\ op = "migrate" => legacy.state = "present" /\ legacy.data # <<>>
    /\ IF fail = "connect"
       THEN /\ UNCHANGED <<conns, session>>
            /\ last' = Call(op, arg, Absent, TRUE, FALSE, Failed(op))
       ELSE IF fail = "pragma"
       THEN /\ conns' = conns + 1
            /\ UNCHANGED session
            /\ last' = Call(op, arg, Absent, TRUE, FALSE, Failed(op))
       ELSE /\ conns' = conns + 1
            /\ session' = [op |-> op,
                           pc |-> IF op = "get_stats" THEN "total" ELSE "body",
                           arg |-> arg, raised |-> FALSE, result |-> NoStats]
            /\ last' = Call("_get_connection", arg, op, FALSE, FALSE,
                            Returned(TRUE))
    /\ UNCHANGED <<storeVars, histVars, idVars, runVars, wrapper>>

\* the statements of an operation other than get_stats, with the commit of
\* those that write; fail: one of them raises and nothing is committed
Execute(fail) ==
    LET op == session.op
        id == get_article_id(session.arg).val.v
        cutoff == now - RetentionDays * TicksPerDay
        m == MigrateRows(legacy.data, table, 0, now)
        raises == fail \/ (op = "migrate" /\ m.raised)
        left == IF raises THEN table
                ELSE IF op = "mark_processed"
                THEN InsertOrReplace(table, MarkRow(session.arg, id,
                                                    SessionSummary, now))
                ELSE IF op = "clear_older_than" /\ cutoff >= 0
                THEN DeleteOlder(table, isoformat(cutoff))
                ELSE IF op = "migrate" THEN m.table
                ELSE table
        marks == ~raises /\ op = "mark_processed"
    IN  /\ session.pc = "body"
        /\ table' = left
        /\ lastMark' = {q \in lastMark : Exists(left, q[1])
                                          /\ (marks => q[1] # id)}
                       \cup (IF marks THEN {<<id, SessionSummary>>} ELSE {})
        /\ everMarked' = IF marks THEN everMarked \cup {id} ELSE everMarked
        /\ everMigrated' = IF ~raises /\ op = "migrate"
                           THEN everMigrated
                                \cup {r.article_id : r \in m.table \ table}
                           ELSE everMigrated
        /\ session' = [session EXCEPT
               !.pc = "close",
               !.raised = raises,
               !.result =
                   IF op = "is_processed" THEN Exists(table, id)
                   ELSE IF op = "clear_older_than"
                   THEN Cardinality(table) - Cardinality(left)
                   ELSE IF op = "migrate" THEN m.migrated
                   ELSE TRUE]
        /\ last' = Call("execute", session.arg, op, fail, FALSE,
                        IF raises THEN Raised ELSE Returned(TRUE))
        /\ UNCHANGED <<legacy, opened, now, idVars, runVars, conns, wrapper>>

\* get_stats, lines 267-283: the next of its four SELECT statements, on the
\* store as it is when the statement runs
StatsSelect(fail) ==
    /\ session.pc \in {"total", "sources", "oldest", "newest"}
    /\ session' =
          IF fail THEN [session EXCEPT !.pc = "close", !.raised = TRUE]
          ELSE IF session.pc = "total"
          THEN [session EXCEPT !.pc = "sources",
                               !.result.total_articles = CountAll(table)]
          ELSE IF session.pc = "sources"
          THEN [session EXCEPT !.pc = "oldest",
                               !.result.by_source = CountBySource(table)]
          ELSE IF session.pc = "oldest"
          THEN [session EXCEPT !.pc = "newest",
                               !.result.oldest_article = MinDate(table)]
          ELSE [session EXCEPT !.pc = "close",
                               !.result.newest_article = MaxDate(table)]
    /\ last' = Call("execute", session.pc, session.op, fail, FALSE,
                    IF fail THEN Raised ELSE Returned(TRUE))
    /\ UNCHANGED <<storeVars, histVars, idVars, runVars, conns, wrapper>>

\* line 67, conn.close() in the finally clause, and the rest of the
\* operation: its return or its exception, for the migration the renaming of
\* the legacy file (lines 112-116)
Release ==
    /\ session.pc = "close"
    /\ conns' = conns - 1
    /\ session' = NoSession
    /\ legacy' = IF session.op = "migrate" /\ ~session.raised
                     /\ session.result > 0
                  THEN [legacy EXCEPT !.state = "renamed"] ELSE legacy
    /\ last' = Call(session.op, session.arg, Absent, session.raised, FALSE,
                    IF session.raised THEN Failed(session.op)
                    ELSE Returned(session.result))
    /\ UNCHANGED <<table, opened, now, histVars, idVars, runVars, wrapper>>

\* a connection that was left open is closed when the interpreter collects
\* the connection object, at some later time or never
Collect ==
    /\ conns > (IF session.pc = "idle" THEN 0 ELSE 1)
    /\ conns' = conns - 1
    /\ last' = Call("collect", Absent, Absent, FALSE, FALSE, Returned(TRUE))
    /\ UNCHANGED <<storeVars, histVars, idVars, runVars, session, wrapper>>

InitSession ==
    /\ table = {}
    /\ legacy \in LegacyFiles
    /\ opened = TRUE
    /\ now = 0
    /\ last = NoCall
    /\ lastMark = {}
    /\ everMarked = {}
    /\ everMigrated = {}
    /\ idArg = NoArticle
    /\ idOut = <<>>
    /\ RunIdle
    /\ AuxIdle

\* the steps of one caller's operations, and the operations of the other
\* callers of the store
NextSession ==
    \/ \E op \in SessionOps : \E arg \in SessionArgs(op) :
          \E fail \in {NoFailure, "connect", "pragma"} :
              GetConnection(op, arg, fail)
    \/ \E fail \in BOOLEAN : Execute(fail)
    \/ \E fail \in BOOLEAN : StatsSelect(fail)
    \/ Release
    \/ Collect
    \/ \E a \in SessionArticles : mark_processed(a, SessionSummary, FALSE)
    \/ clear_older_than(IntVal(RetentionDays), FALSE)
    \/ Tick

SpecSession == InitSession /\ [][NextSession]_vars

\* C25: when a store operation has returned or raised, no connection the
\* operation opened is still open, whether the connection could be set up
\* or not and whether its statements failed or not.
C25_NoConnectionLeftOpen ==
    session.pc = "idle" => conns = 0

\* an operation whose connection was set up closes it on every way out
C25_ClosedOnceSetUp ==
    [][session.pc # "idle" /\ session'.pc = "idle" =>
          conns' = conns - 1]_vars

\* C27: each store operation is one transaction for the other callers:
\* whatever they write while get_stats runs, the values it returns are
\* those of one state of the store, so the total is the sum of the counts
\* by source and the oldest date is not after the newest.
C27_StatsFromOneState ==
    last.op = "get_stats" /\ ~last.ret.raised =>
        LET st == last.ret.val
        IN  /\ st.total_articles = SumOver(st.by_source)
            /\ st.oldest_article.k = st.newest_article.k
            /\ st.oldest_article.k = "text" =>
                   ~TextLess(st.newest_article.v, st.oldest_article.v)

(***************************************************************************)
(* The retry decorator (src/src/utils/openai_utils.py, and the same code   *)
(* in src/src/emailer/email_sender.py): one call of the wrapper, iteration *)
(* by iteration, the wrapped function returning or raising as it pleases.  *)
(***************************************************************************)
MaxAttempts == 3
MaxDelay == 2
MaxFactor == 3

RetryExceptions == {"e1", "e2"}
RetryValues == {"v"}

\* what a call of the wrapped function may do
Outcomes ==
    {Returned(v) : v \in RetryValues}
    \cup {[raised |-> TRUE, val |-> e] : e \in RetryExceptions}

\* lines 24-26: the locals at the start of the loop
Wrapper(max_attempts, initial_delay, backoff_factor) ==
    [pc |-> "loop", max_attempts |-> max_attempts,
     initial_delay |-> initial_delay, backoff_factor |-> backoff_factor,
     attempt |-> 0, delay |-> initial_delay, last_exception |-> "None",
     calls |-> <<>>, sleeps |-> <<>>, result |-> "None"]

\* an iteration that sleeps after every failure, the last one included
AttemptSleepingAlways(outcome) ==
    /\ wrapper.pc = "loop"
    /\ wrapper.attempt < wrapper.max_attempts
    /\ wrapper' =
          IF ~outcome.raised
          THEN [wrapper EXCEPT !.pc = "returned", !.result = outcome.val,
                               !.calls = Append(@, outcome)]
          ELSE [wrapper EXCEPT !.attempt = @ + 1,
                               !.last_exception = outcome.val,
                               !.calls = Append(@, outcome),
                               !.sleeps = Append(@, wrapper.delay),
                               !.delay = @ * wrapper.backoff_factor]
    /\ last' = Call("func", Absent, Absent, outcome.raised, FALSE, outcome)
    /\ UNCHANGED <<storeVars, histVars, idVars, runVars, conns, session>>

\* lines 28-40: one iteration of the while loop: the call of the wrapped
\* function, its return, or the handler with the sleep before the next
\* attempt
Attempt(outcome) ==
    /\ wrapper.pc = "loop"
    /\ wrapper.attempt < wrapper.max_attempts
    /\ wrapper' =
          IF ~outcome.raised
          THEN [wrapper EXCEPT !.pc = "returned", !.result = outcome.val,
                               !.calls = Append(@, outcome)]
          ELSE IF wrapper.attempt + 1 < wrapper.max_attempts
          THEN [wrapper EXCEPT !.attempt = @ + 1,
                               !.last_exception = outcome.val,
                               !.calls = Append(@, outcome),
                               !.sleeps = Append(@, wrapper.delay),
                               !.delay = @ * wrapper.backoff_factor]
          ELSE [wrapper EXCEPT !.attempt = @ + 1,
                               !.last_exception = outcome.val,
                               !.calls = Append(@, outcome)]
    /\ last' = Call("func", Absent, Absent, outcome.raised, FALSE, outcome)
    /\ UNCHANGED <<storeVars, histVars, idVars, runVars, conns, session>>

\* line 42, reached when the loop condition fails: raise last_exception;
\* raising None is a TypeError
RaiseLast ==
    /\ wrapper.pc = "loop"
    /\ wrapper.attempt >= wrapper.max_attempts
    /\ wrapper' = [wrapper EXCEPT
                      !.pc = "raised",
                      !.result = IF wrapper.last_exception = "None"
                                 THEN "TypeError"
                                 ELSE wrapper.last_exception]
    /\ last' = Call("retry", Absent, Absent, TRUE, FALSE, Raised)
    /\ UNCHANGED <<storeVars, histVars, idVars, runVars, conns, session>>

InitRetry ==
    /\ table = {}
    /\ legacy = NoLegacy
    /\ opened = FALSE
    /\ now = 0
    /\ last = NoCall
    /\ lastMark = {}
    /\ everMarked = {}
    /\ everMigrated = {}
    /\ idArg = NoArticle
    /\ idOut = <<>>
    /\ RunIdle
    /\ conns = 0
    /\ session = NoSession
    /\ wrapper \in {Wrapper(m, d, b) : m \in 0..MaxAttempts,
                                        d \in 1..MaxDelay,
                                        b \in 1..MaxFactor}

NextRetry ==
    \/ \E outcome \in Outcomes : Attempt(outcome)
    \/ RaiseLast

SpecRetry == InitRetry /\ [][NextRetry]_vars

RECURSIVE Pow(_, _)
Pow(b, k) == IF k = 0 THEN 1 ELSE b * Pow(b, k - 1)

\* the calls of the wrapped function that raised
FailedCalls == {i \in 1..Len(wrapper.calls) : wrapper.calls[i].raised}

\* C28: with max_attempts >= 1 the wrapper calls the function at most
\* max_attempts times; it returns what the first call that does not raise
\* returns and calls no more; when max_attempts calls have raised it raises
\* the exception of the last one; it sleeps between attempts only, the k-th
\* time for initial_delay * backoff_factor^(k-1).
C28_RetryContract ==
    /\ [](wrapper.pc # "idle" /\ wrapper.max_attempts >= 1 =>
            LET n == Len(wrapper.calls)
            IN  /\ n <= wrapper.max_attempts
                /\ \A i \in 1..(n - 1) : wrapper.calls[i].raised
                /\ wrapper.pc = "returned" <=>
                       (n > 0 /\ ~wrapper.calls[n].raised)
                /\ wrapper.pc = "returned" =>
                       wrapper.result = wrapper.calls[n].val
                /\ wrapper.pc = "raised" =>
                       /\ n = wrapper.max_attempts
                       /\ wrapper.result = wrapper.calls[n].val
                /\ Len(wrapper.sleeps) =
                       Min(Cardinality(FailedCalls), wrapper.max_attempts - 1)
                /\ \A k \in 1..Len(wrapper.sleeps) :
                       wrapper.sleeps[k] =
                           wrapper.initial_delay
                           * Pow(wrapper.backoff_factor, k - 1))
    /\ [][wrapper.pc \in {"returned", "raised"} => wrapper' = wrapper]_vars

\* C28 witness: three attempts raised, the wrapper slept twice, the second
\* time longer than the first, and raised the exception of the third call
C28_Witness ==
    /\ wrapper.pc = "raised"
    /\ wrapper.max_attempts = 3
    /\ Len(wrapper.sleeps) = 2
    /\ wrapper.sleeps[2] > wrapper.sleeps[1]
    /\ wrapper.calls[1].val # wrapper.calls[3].val
    /\ wrapper.result = wrapper.calls[3].val

(***************************************************************************)
(* metrics.get_journal_h_index on the works Crossref returns for a venue.  *)
(***************************************************************************)
MaxWorks == 3
MaxCount == 3

\* an item of the response: its "is-referenced-by-count" is missing, null
\* or an integer
Work(count) == [is_referenced_by_count |-> count]
Works == {Work(c) : c \in {Absent, NoneVal} \cup {IntVal(n) : n \in 0..MaxCount}}

\* int(it.get("is-referenced-by-count", 0)) raises on null
CountRaises(work) == work.is_referenced_by_count.k = "none"
CountOf(work) ==
    IF work.is_referenced_by_count.k = "absent" THEN 0
    ELSE work.is_referenced_by_count.n

\* the counts in the order of the response
UnsortedCitations(items) == [i \in 1..Len(items) |-> CountOf(items[i])]

RECURSIVE InsertDescending(_, _)
InsertDescending(c, sorted) ==
    IF sorted = <<>> THEN <<c>>
    ELSE IF c > Head(sorted) THEN <<c>> \o sorted
    ELSE <<Head(sorted)>> \o InsertDescending(c, Tail(sorted))

\* lines 38-40: sorted([...], reverse=True)
RECURSIVE SortedCitations(_)
SortedCitations(items) ==
    IF items = <<>> THEN <<>>
    ELSE InsertDescending(CountOf(Head(items)), SortedCitations(Tail(items)))

\* lines 41-46: the loop over enumerate(citations, 1), from index i on
RECURSIVE HIndexLoop(_, _, _)
HIndexLoop(citations, i, h) ==
    IF i > Len(citations) THEN h
    ELSE IF citations[i] >= i THEN HIndexLoop(citations, i + 1, i)
    ELSE h

\* lines 33-50 for a journal name that is not empty: what the request and
\* the computation give, a failure being a request that raises or a count
\* that int() rejects
VenueWorks(items, fail) ==
    IF fail \/ \E i \in 1..Len(items) : CountRaises(items[i])
    THEN LookupFailed
    ELSE VenueHIndex(HIndexLoop(SortedCitations(items), 1, 0))

Journals == {Absent, NoneVal, Txt(EmptyText), Txt(<<"j">>)}

InitHIndex ==
    /\ table = {}
    /\ legacy = NoLegacy
    /\ opened = FALSE
    /\ now = 0
    /\ last = NoCall
    /\ lastMark = {}
    /\ everMarked = {}
    /\ everMigrated = {}
    /\ idArg = NoArticle
    /\ idOut = <<>>
    /\ pc = "idle"
    /\ reader = 0
    /\ batch \in ListsUpTo(Works, MaxWorks)
    /\ item = 0
    /\ pending = Absent
    /\ new_articles = <<>>
    /\ summarized = {}
    /\ fetched = <<>>
    /\ passed = <<>>
    /\ AuxIdle

\* get_journal_h_index(journal), called once, the response holding the
\* works of batch; fail: the request raises
GetJournalHIndex(journal, fail) ==
    /\ last = NoCall
    /\ last' = Call("get_journal_h_index", journal, batch, fail, FALSE,
                    Returned(get_journal_h_index(journal,
                                                 VenueWorks(batch, fail))))
    /\ UNCHANGED <<storeVars, histVars, idVars, runVars, auxVars>>

NextHIndex ==
    \E journal \in Journals, fail \in BOOLEAN : GetJournalHIndex(journal, fail)

SpecHIndex == InitHIndex /\ [][NextHIndex]_vars

\* the number of works of the list with at least h citations
WorksWithAtLeast(items, h) ==
    Cardinality({i \in 1..Len(items) : CountOf(items[i]) >= h})

\* C30: get_journal_h_index returns the largest h such that at least h of
\* the works fetched for the venue have h citations or more, 0 when there
\* are no works; the result is a non-negative integer, and a lookup that
\* fails gives 0, not an error.
C30_HIndexOfFetchedWorks ==
    last.op = "get_journal_h_index" =>
        LET h == last.ret.val
            items == last.aux
            failed == \/ last.fail
                      \/ ~Truthy(last.arg)
                      \/ \E i \in 1..Len(items) : CountRaises(items[i])
        IN  /\ ~last.ret.raised
            /\ h \in Nat
            /\ failed => h = 0
            /\ ~failed =>
                  /\ h <= Len(items)
                  /\ WorksWithAtLeast(items, h) >= h
                  /\ \A k \in (h + 1)..Len(items) :
                        WorksWithAtLeast(items, k) < k

\* C30 witness: three works in an order that is not descending, one of
\* them with fewer citations than the h-index of 2 that is returned
C30_Witness ==
    /\ last.op = "get_journal_h_index"
    /\ ~last.fail
    /\ Truthy(last.arg)
    /\ Len(last.aux) = 3
    /\ \A i \in 1..3 : ~CountRaises(last.aux[i])
    /\ CountOf(last.aux[1]) < CountOf(last.aux[2])
    /\ last.ret.val = 2
    /\ \E i \in 1..3 : CountOf(last.aux[i]) < 2

====
